---- MODULE Spec2Model ----
(***************************************************************************)
(* A model of the Proxmox VS Code extension.  Its first part is the REST   *)
(* client (ProxmoxClient): one client instance, the operation in flight,   *)
(* the HTTP(S) requests it has issued and the responses of the remote API. *)
(* Its second part is the extension around the client (extension.ts): the  *)
(* settings and stores it reads, the connectivity state it shows, and the  *)
(* command and timer invocations that build clients and call them.         *)
(*                                                                         *)
(* Text is modelled as a sequence of tokens: a token is a TLA+ string that *)
(* stands for one character or for an unbroken run of characters (" " is   *)
(* one whitespace character, "https:" a URL scheme, "//h:8006" an          *)
(* authority, "/" a path separator).  A JSON object is a record whose      *)
(* optional members may be absent from its DOMAIN.                         *)
(***************************************************************************)
EXTENDS Integers, Sequences, FiniteSets, TLC

VARIABLES
    host,           \* ProxmoxClient.host (trimmed at construction)
    apiToken,       \* ProxmoxClient.apiToken (trimmed at construction)
    allowInsecure,  \* ProxmoxClient.allowInsecure
    call,           \* the operation called on the client and its arguments
    outcome,        \* the promise the operation returned to its caller
    requests,       \* the requests the operation issued, in issue order
    settings,       \* the proxmox.* settings of the workspace configuration
    secrets,        \* context.secrets 'proxmox.apiToken', an Optional
    suppressInsecureWarning,  \* globalState 'proxmox.suppressInsecureWarning'
    statusState,    \* 'unknown' | 'connecting' | 'connected' | 'disconnected'
    lastRefresh,    \* Date | null, an Optional
    lastError,      \* string | null, an Optional
    running,        \* the frame of each invocation under way
    warningSeen,    \* history: the insecure-TLS warning has been displayed
    calls           \* history: how the client calls settled so far have ended

clientVars == <<host, apiToken, allowInsecure, call, outcome, requests>>

extensionVars ==
    <<settings, secrets, suppressInsecureWarning, statusState, lastRefresh,
      lastError, running, warningSeen, calls>>

vars ==
    <<host, apiToken, allowInsecure, call, outcome, requests, settings, secrets,
      suppressInsecureWarning, statusState, lastRefresh, lastError, running,
      warningSeen, calls>>

\* The longest array a remote collection response carries.
MaxEntries == 2

(***************************************************************************)
(* Text helpers                                                            *)
(***************************************************************************)
Whitespace == {" "}

RECURSIVE TrimStart(_)
TrimStart(s) ==
    IF s # <<>> /\ Head(s) \in Whitespace THEN TrimStart(Tail(s)) ELSE s

RECURSIVE TrimEnd(_)
TrimEnd(s) ==
    IF s # <<>> /\ s[Len(s)] \in Whitespace
    THEN TrimEnd(SubSeq(s, 1, Len(s) - 1))
    ELSE s

\* String.prototype.trim
Trim(s) == TrimEnd(TrimStart(s))

\* String.prototype.endsWith('/')
EndsWithSlash(s) == s # <<>> /\ s[Len(s)] = "/"

\* a ?? b on an optional member of a JSON object
Coalesce(obj, key, default) == IF key \in DOMAIN obj THEN obj[key] ELSE default

\* encodeURIComponent on the caller-supplied path segments the model uses
encodeURIComponent(s) ==
    CASE s = "dc/1" -> "dc%2F1"
      [] s = "pre upgrade" -> "pre%20upgrade"
      [] OTHER -> s

(***************************************************************************)
(* Inputs: configurations, arguments                                       *)
(***************************************************************************)
ConfigHosts ==
    { <<>>, <<" ">>,
      <<"https:", "//h:8006">>,
      <<" ", "http:", "//h:8006", "/", " ">>,
      <<"pve.local">> }

ConfigTokens == { <<>>, <<" ">>, <<" ", "u@pve!t=secret", " ">> }

NodeNames == {"pve1", "dc/1"}
VmTypes == {"qemu", "lxc"}
VmIds == {100}
SnapshotNames == {"snap1", "pre upgrade"}

(***************************************************************************)
(* Errors                                                                  *)
(***************************************************************************)
ConfigError ==
    [name |-> "Error",
     message |-> [text |-> "Proxmox host or API token is not configured."]]

\* new URL(...) on text that is no absolute URL
InvalidUrlError == [name |-> "TypeError", message |-> [text |-> "Invalid URL"]]

\* what the transport emits on the request's 'error' event
TransportErrors ==
    { [name |-> "Error", message |-> [text |-> "connect ECONNREFUSED"]] }

\* what JSON.parse throws
ParseError(body) ==
    [name |-> "SyntaxError", message |-> [text |-> "Unexpected token in JSON"]]

(***************************************************************************)
(* Remote payloads                                                         *)
(***************************************************************************)
\* All sequences over S of length at most n.
SeqUpTo(S, n) == UNION { [1..k -> S] : k \in 0..n }

\* An optional member as a set: {} when absent (undefined), {v} when present.
Optional(obj, key) == IF key \in DOMAIN obj THEN {obj[key]} ELSE {}

\* Entries of GET api2/json/nodes
NodeEntries ==
    { [node |-> "pve1", status |-> "online"],
      [node |-> "pve2", status |-> "offline"],
      [node |-> "pve3", status |-> "maintenance"],
      [node |-> "pve4", status |-> ""],
      [status |-> "Online"],
      [node |-> "pve5"] }

\* Entries of GET api2/json/nodes/{node}/qemu and .../lxc
VmEntries ==
    { [vmid |-> 100, name |-> <<"web">>, status |-> "running"],
      [vmid |-> 50, name |-> <<>>, status |-> "stopped"],
      [vmid |-> 50, name |-> <<" ", "db", " ">>, status |-> "paused"],
      [name |-> <<" ">>, status |-> "Running"],
      [vmid |-> 7] }

\* Entries of GET api2/json/nodes/{node}/{type}/{id}/snapshot
SnapshotEntries ==
    { [name |-> "current"],
      [name |-> "snap1", snaptime |-> 1700],
      [name |-> "snap2"],
      [name |-> "", snaptime |-> 5],
      [snaptime |-> 0],
      [name |-> "snap1", snaptime |-> 0] }

\* data of GET api2/json/nodes/{node}/{type}/{id}/status/current
DetailData ==
    { [name |-> <<" ", "web">>, status |-> "running", uptime |-> 5, cpu |-> 1,
       mem |-> 2, maxmem |-> 4],
      [name |-> <<" ">>, status |-> "paused", uptime |-> 0],
      [maxmem |-> 8] }

\* An envelope that carries no data member.
NoData == [success |-> 1]

Envelopes(entries) == { [data |-> s] : s \in SeqUpTo(entries, MaxEntries) } \cup {NoData}

\* The JSON documents the remote may answer an operation with.
Documents(op) ==
    CASE op = "listNodes" -> Envelopes(NodeEntries)
      [] op = "listVirtualMachines" -> Envelopes(VmEntries)
      [] op = "listSnapshots" -> Envelopes(SnapshotEntries)
      [] op = "getVirtualMachineDetails" -> { [data |-> d] : d \in DetailData } \cup {NoData}
      [] OTHER -> { [data |-> "UPID:pve1:0001"], NoData }

\* Response bodies that are no JSON document.
TextBodies ==
    { [valid |-> FALSE, text |-> "not-json"],
      [valid |-> FALSE, text |-> "permission denied"] }

JsonBodies(op) == { [valid |-> TRUE, value |-> d] : d \in Documents(op) }

\* Status codes the remote answers with; only 200..299 are successes.
SuccessCodes == {200}
OtherCodes == {199, 299, 300, 500}

\* What the remote can answer a request of operation op with: a whole
\* response (statusCode absent when the transport reports none).
Responses(op) ==
    { [statusCode |-> c, body |-> b] :
        c \in SuccessCodes, b \in JsonBodies(op) \cup TextBodies }
        \cup { [statusCode |-> c, body |-> b] :
                 c \in OtherCodes,
                 b \in TextBodies \cup {[valid |-> TRUE, value |-> NoData]} }
        \cup { [body |-> b] : b \in TextBodies }

(***************************************************************************)
(* URLs                                                                    *)
(***************************************************************************)
Schemes == {"https:", "http:"}
Authorities == {"//h:8006"}

\* new URL(text): an absolute URL is a scheme, an authority and a path of
\* "/" separators; anything else throws TypeError (ok = FALSE).
ParseUrl(text) ==
    IF /\ Len(text) >= 2
       /\ text[1] \in Schemes
       /\ text[2] \in Authorities
       /\ \A i \in 3..Len(text) : text[i] = "/"
    THEN [ok |-> TRUE, protocol |-> text[1], authority |-> text[2]]
    ELSE [ok |-> FALSE]

\* ProxmoxClient.normalizedBaseUrl, and the same expression inlined in
\* listNodes and listVirtualMachines
normalizedBaseUrl == ParseUrl(IF EndsWithSlash(host) THEN host ELSE host \o <<"/">>)

\* new URL(relative, base): the relative path resolved against the base
Url(path, base) ==
    [protocol |-> base.protocol, authority |-> base.authority, path |-> path]

NodePath(node) == <<"api2", "json", "nodes", encodeURIComponent(node)>>

VmPath(node, type, vmId) == NodePath(node) \o <<type, ToString(vmId)>>

(***************************************************************************)
(* requestJson                                                             *)
(***************************************************************************)
\* application/x-www-form-urlencoded serialisation of one value
FormEncode(s) == IF s = "pre upgrade" THEN "pre+upgrade" ELSE s

\* new URLSearchParams(Object.fromEntries(...)).toString(), as the list
\* of its key=value fields; <<>> is the undefined payload
Payload(body) ==
    [i \in 1..Len(body) |-> [key |-> body[i].key, value |-> FormEncode(body[i].value)]]

\* Buffer.byteLength of the serialised payload: key=value fields joined
\* by "&" (every text of the model is ASCII)
RECURSIVE byteLength(_)
byteLength(payload) ==
    IF payload = <<>> THEN 0
    ELSE Len(Head(payload).key) + 1 + Len(Head(payload).value)
         + (IF Tail(payload) = <<>> THEN 0 ELSE 1 + byteLength(Tail(payload)))

useHttps(url) == url.protocol # "http:"

\* requestOptions with the scheme test left out of the trust downgrade.
requestOptionsMutant(url, method, body) ==
    LET payload == Payload(body) IN
    [ url |-> url,
      module |-> IF useHttps(url) THEN "node:https" ELSE "node:http",
      method |-> method,
      headers |->
        IF payload # <<>>
        THEN [Accept |-> "application/json",
              Authorization |-> <<"PVEAPIToken=">> \o apiToken,
              ContentType |-> "application/x-www-form-urlencoded",
              ContentLength |-> byteLength(payload)]
        ELSE [Accept |-> "application/json",
              Authorization |-> <<"PVEAPIToken=">> \o apiToken],
      agent |-> IF allowInsecure THEN {[rejectUnauthorized |-> FALSE]} ELSE {},
      rejectUnauthorized |-> {~allowInsecure},
      written |-> payload,
      state |-> "pending" ]

\* The part of requestJson that runs before the response: the request as
\* handed to request(url, requestOptions, ...), written and ended.  agent
\* and rejectUnauthorized are Optionals ({} is undefined).
requestOptions(url, method, body) ==
    LET payload == Payload(body) IN
    [ url |-> url,
      module |-> IF useHttps(url) THEN "node:https" ELSE "node:http",
      method |-> method,
      headers |->
        IF payload # <<>>
        THEN [Accept |-> "application/json",
              Authorization |-> <<"PVEAPIToken=">> \o apiToken,
              ContentType |-> "application/x-www-form-urlencoded",
              ContentLength |-> byteLength(payload)]
        ELSE [Accept |-> "application/json",
              Authorization |-> <<"PVEAPIToken=">> \o apiToken],
      agent |->
        IF useHttps(url) /\ allowInsecure
        THEN {[rejectUnauthorized |-> FALSE]}
        ELSE {},
      rejectUnauthorized |-> IF useHttps(url) THEN {~allowInsecure} ELSE {},
      written |-> payload,
      state |-> "pending" ]

\* `${statusCode ?? 'unknown'}`
StatusText(res) ==
    IF "statusCode" \in DOMAIN res THEN ToString(res.statusCode) ELSE "unknown"

ApiError(res) ==
    [name |-> "Error",
     message |-> [prefix |-> "Proxmox API error ", status |-> StatusText(res),
                  separator |-> ": ", body |-> res.body]]

\* BadStatus with the upper bound off by one (statusCode > 300).
BadStatusMutant(res) ==
    \/ "statusCode" \notin DOMAIN res
    \/ res.statusCode = 0
    \/ res.statusCode < 200
    \/ res.statusCode > 300

\* !statusCode || statusCode < 200 || statusCode >= 300
BadStatus(res) ==
    \/ "statusCode" \notin DOMAIN res
    \/ res.statusCode = 0
    \/ res.statusCode < 200
    \/ res.statusCode >= 300

\* onEnd parsing the body before it looks at the status code.
onEndMutant(req, res) ==
    IF ~res.body.valid
    THEN [req EXCEPT !.state = "rejected"]
             @@ [response |-> res, error |-> ParseError(res.body)]
    ELSE IF BadStatus(res)
         THEN [req EXCEPT !.state = "rejected"]
                  @@ [response |-> res, error |-> ApiError(res)]
         ELSE [req EXCEPT !.state = "resolved"]
                  @@ [response |-> res, value |-> res.body.value]

\* The res.on('end') handler of requestJson: how the request's promise settles.
onEnd(req, res) ==
    IF BadStatus(res)
    THEN [req EXCEPT !.state = "rejected"] @@ [response |-> res, error |-> ApiError(res)]
    ELSE IF res.body.valid
         THEN [req EXCEPT !.state = "resolved"]
                  @@ [response |-> res, value |-> res.body.value]
         ELSE [req EXCEPT !.state = "rejected"]
                  @@ [response |-> res, error |-> ParseError(res.body)]

\* onError swallowing the transport failure: the request resolves with an
\* empty envelope.
onErrorMutant(req, err) == [req EXCEPT !.state = "resolved"] @@ [value |-> NoData]

\* The req.on('error') handler of requestJson.
onError(req, err) == [req EXCEPT !.state = "rejected"] @@ [error |-> err]

(***************************************************************************)
(* Response normalisation                                                  *)
(***************************************************************************)
\* normalizeStatus passing every present status through.
normalizeStatusMutant(status) ==
    IF status # {} THEN CHOOSE v \in status : TRUE ELSE "unknown"

\* ProxmoxClient.normalizeStatus; status is an Optional
normalizeStatus(status) ==
    IF status = {"online"} \/ status = {"offline"}
    THEN CHOOSE v \in status : TRUE
    ELSE "unknown"

\* normalizeVmStatus passing every present status through.
normalizeVmStatusMutant(status) ==
    IF status # {} THEN CHOOSE v \in status : TRUE ELSE "unknown"

\* ProxmoxClient.normalizeVmStatus; status is an Optional
normalizeVmStatus(status) ==
    IF status = {"running"} \/ status = {"stopped"}
    THEN CHOOSE v \in status : TRUE
    ELSE "unknown"

\* vmName with ?? in place of ||: only a missing name gets the placeholder.
vmNameMutant(vm) ==
    IF "name" \in DOMAIN vm
    THEN Trim(vm.name)
    ELSE <<"VM", " ", IF "vmid" \in DOMAIN vm THEN ToString(vm.vmid) ELSE "unknown">>

\* vm.name?.trim() || `VM ${vm.vmid ?? 'unknown'}`
vmName(vm) ==
    LET trimmed == IF "name" \in DOMAIN vm THEN Trim(vm.name) ELSE <<>> IN
    IF trimmed # <<>>
    THEN trimmed
    ELSE <<"VM", " ", IF "vmid" \in DOMAIN vm THEN ToString(vm.vmid) ELSE "unknown">>

\* ProxmoxClient.mapVm
mapVm(vm, type, node) ==
    [ id |-> Coalesce(vm, "vmid", -1),
      name |-> vmName(vm),
      status |-> normalizeVmStatus(Optional(vm, "status")),
      type |-> type,
      node |-> node ]

\* InsertById with the comparator reversed (b.id - a.id).
RECURSIVE InsertByIdMutant(_, _)
InsertByIdMutant(x, sorted) ==
    IF sorted = <<>> THEN <<x>>
    ELSE IF x.id - Head(sorted).id <= 0
         THEN <<Head(sorted)>> \o InsertByIdMutant(x, Tail(sorted))
         ELSE <<x>> \o sorted

\* Insert x after every element whose id is not greater: keeps equal ids
\* in their original order.
RECURSIVE InsertById(_, _)
InsertById(x, sorted) ==
    IF sorted = <<>> THEN <<x>>
    ELSE IF Head(sorted).id - x.id <= 0
         THEN <<Head(sorted)>> \o InsertById(x, Tail(sorted))
         ELSE <<x>> \o sorted

\* Array.prototype.sort((a, b) => a.id - b.id): a stable sort
RECURSIVE SortById(_)
SortById(seq) ==
    IF seq = <<>> THEN <<>>
    ELSE InsertById(seq[Len(seq)], SortById(SubSeq(seq, 1, Len(seq) - 1)))

\* The continuation of listNodes after its request resolved
listNodesResult(response) ==
    LET nodes == Coalesce(response, "data", <<>>) IN
    [ i \in 1..Len(nodes) |->
        [ name |-> Coalesce(nodes[i], "node", "unknown"),
          status |-> normalizeStatus(Optional(nodes[i], "status")) ] ]

\* The continuation of listVirtualMachines after both requests resolved
listVirtualMachinesResult(node, qemuResponse, lxcResponse) ==
    LET qemuData == Coalesce(qemuResponse, "data", <<>>)
        lxcData == Coalesce(lxcResponse, "data", <<>>)
        qemuVms == [i \in 1..Len(qemuData) |-> mapVm(qemuData[i], "qemu", node)]
        lxcVms == [i \in 1..Len(lxcData) |-> mapVm(lxcData[i], "lxc", node)]
    IN SortById(qemuVms \o lxcVms)

\* getVirtualMachineDetailsResult collapsing the status to the
\* running/stopped/unknown enum, as mapVm does.
getVirtualMachineDetailsResultMutant(node, type, vmId, response) ==
    LET data == Coalesce(response, "data", <<>>)
        trimmed == IF "name" \in DOMAIN data THEN Trim(data.name) ELSE <<>>
    IN [ id |-> vmId,
         name |-> IF trimmed # <<>> THEN trimmed ELSE <<"VM", " ", ToString(vmId)>>,
         status |-> IF Coalesce(data, "status", "unknown") \in {"running", "stopped"}
                    THEN data.status
                    ELSE "unknown",
         uptime |-> Coalesce(data, "uptime", 0),
         cpu |-> Coalesce(data, "cpu", 0),
         mem |-> Coalesce(data, "mem", 0),
         maxMem |-> Coalesce(data, "maxmem", 0),
         node |-> node,
         type |-> type ]

\* The continuation of getVirtualMachineDetails
getVirtualMachineDetailsResult(node, type, vmId, response) ==
    LET data == Coalesce(response, "data", <<>>)
        trimmed == IF "name" \in DOMAIN data THEN Trim(data.name) ELSE <<>>
    IN [ id |-> vmId,
         name |-> IF trimmed # <<>> THEN trimmed ELSE <<"VM", " ", ToString(vmId)>>,
         status |-> Coalesce(data, "status", "unknown"),
         uptime |-> Coalesce(data, "uptime", 0),
         cpu |-> Coalesce(data, "cpu", 0),
         mem |-> Coalesce(data, "mem", 0),
         maxMem |-> Coalesce(data, "maxmem", 0),
         node |-> node,
         type |-> type ]

\* keepSnapshot without the test for the "current" pseudo-snapshot.
keepSnapshotMutant(snapshot) ==
    /\ "name" \in DOMAIN snapshot
    /\ snapshot.name # ""

\* null, in the Optional form
Null == {}

\* snapshot.name && snapshot.name !== 'current'
keepSnapshot(snapshot) ==
    /\ "name" \in DOMAIN snapshot
    /\ snapshot.name # ""
    /\ snapshot.name # "current"

\* .filter((snapshot) => ...) of listSnapshots
RECURSIVE filterSnapshots(_)
filterSnapshots(seq) ==
    IF seq = <<>> THEN <<>>
    ELSE IF keepSnapshot(Head(seq))
         THEN <<Head(seq)>> \o filterSnapshots(Tail(seq))
         ELSE filterSnapshots(Tail(seq))

\* The continuation of listSnapshots; createdAt is an Optional
listSnapshotsResult(response) ==
    LET kept == filterSnapshots(Coalesce(response, "data", <<>>)) IN
    [ i \in 1..Len(kept) |->
        [ name |-> Coalesce(kept[i], "name", "unknown"),
          createdAt |-> IF "snaptime" \in DOMAIN kept[i]
                        THEN {kept[i].snaptime}
                        ELSE Null ] ]

(***************************************************************************)
(* The extension's state                                                   *)
(***************************************************************************)
\* The invocations that can be under way together: one command the user
\* has run, one run of the refresh timer and one getChildren of the explorer.
Invocations == {"command", "timer", "tree"}

\* The contributed defaults of the proxmox.* settings
DefaultSettings ==
    [host |-> <<>>, apiToken |-> <<>>, allowInsecure |-> FALSE,
     confirmStart |-> TRUE, confirmStop |-> TRUE, confirmRestart |-> TRUE]

\* No client call has settled: none has failed since the status was last
\* marked connected, and the latest one has not failed.
NoCalls == [failedSinceConnected |-> FALSE, lastFailed |-> FALSE]

\* The history once a client call has settled
Settling(history, state) ==
    IF state = "rejected"
    THEN [failedSinceConnected |-> TRUE, lastFailed |-> TRUE]
    ELSE [history EXCEPT !.lastFailed = FALSE]

\* The locals of a handler that is not running.
IdleFrame ==
    [cmd |-> "none", pc |-> "idle", prompt |-> "none", items |-> <<>>,
     op |-> [op |-> "none"], token |-> Null, client |-> Null, node |-> "",
     filters |-> {}, vm |-> Null, action |-> "", snapshot |-> "",
     answers |-> {}, shown |-> <<>>, element |-> Null, children |-> Null]

\* activate(): statusState 'unknown', lastRefresh and lastError null, no
\* handler running
activate ==
    /\ statusState = "unknown"
    /\ lastRefresh = Null
    /\ lastError = Null
    /\ running = [i \in Invocations |-> IdleFrame]

\* The client on its own: the extension around it is at rest.
ExtensionAtRest ==
    /\ activate
    /\ settings = DefaultSettings
    /\ secrets = Null
    /\ suppressInsecureWarning = FALSE
    /\ warningSeen = FALSE
    /\ calls = NoCalls

(***************************************************************************)
(* The client as a state machine                                           *)
(***************************************************************************)
ClientConfigs ==
    [host : ConfigHosts, apiToken : ConfigTokens, allowInsecure : BOOLEAN]

\* ProxmoxClient's constructor
constructor(config) ==
    /\ host = Trim(config.host)
    /\ apiToken = Trim(config.apiToken)
    /\ allowInsecure = config.allowInsecure

Init ==
    /\ \E config \in ClientConfigs : constructor(config)
    /\ call = [op |-> "none"]
    /\ outcome = [state |-> "idle"]
    /\ requests = <<>>
    /\ ExtensionAtRest

\* The caller awaits each operation before it calls the next.
CanCall == outcome.state = "idle"

\* A throw before the first request: the returned promise is rejected.
Throw(c, err) ==
    /\ call' = c
    /\ requests' = <<>>
    /\ outcome' = [state |-> "rejected", error |-> err]
    /\ UNCHANGED <<host, apiToken, allowInsecure>>

\* Await on a client that keeps the base URL it normalised for the call
\* in its host field.
AwaitMutant(c, reqs) ==
    /\ call' = c
    /\ requests' = reqs
    /\ outcome' = [state |-> "pending"]
    /\ host' = (IF EndsWithSlash(host) THEN host ELSE host \o <<"/">>)
    /\ UNCHANGED <<apiToken, allowInsecure>>

\* The operation suspends on the requests it issued.
Await(c, reqs) ==
    /\ call' = c
    /\ requests' = reqs
    /\ outcome' = [state |-> "pending"]
    /\ UNCHANGED <<host, apiToken, allowInsecure>>

\* if (!this.host || !this.apiToken)
NotConfigured == host = <<>> \/ apiToken = <<>>

\* An operation that builds its URL on normalizedBaseUrl() and awaits one
\* requestJson call, without looking at the configuration first.
SingleRequest(c, path, method, body) ==
    IF ~normalizedBaseUrl.ok
    THEN Throw(c, InvalidUrlError)
    ELSE Await(c, <<requestOptions(Url(path, normalizedBaseUrl), method, body)>>)

listNodes ==
    /\ CanCall
    /\ LET c == [op |-> "listNodes"] IN
       IF NotConfigured
       THEN Throw(c, ConfigError)
       ELSE SingleRequest(c, <<"api2", "json", "nodes">>, "GET", <<>>)

listVirtualMachines(node) ==
    /\ CanCall
    /\ LET c == [op |-> "listVirtualMachines", node |-> node] IN
       IF NotConfigured
       THEN Throw(c, ConfigError)
       ELSE IF ~normalizedBaseUrl.ok
       THEN Throw(c, InvalidUrlError)
       ELSE Await(c,
                <<requestOptions(Url(NodePath(node) \o <<"qemu">>, normalizedBaseUrl),
                                 "GET", <<>>),
                  requestOptions(Url(NodePath(node) \o <<"lxc">>, normalizedBaseUrl),
                                 "GET", <<>>)>>)

getVirtualMachineDetails(node, type, vmId) ==
    /\ CanCall
    /\ LET c == [op |-> "getVirtualMachineDetails", node |-> node, type |-> type,
                 vmId |-> vmId] IN
       IF NotConfigured
       THEN Throw(c, ConfigError)
       ELSE SingleRequest(c, VmPath(node, type, vmId) \o <<"status", "current">>,
                          "GET", <<>>)

\* startVirtualMachine that also queries the guest's status after the
\* POST and completes only when both have answered.
startVirtualMachineMutant(node, type, vmId) ==
    /\ CanCall
    /\ LET c == [op |-> "startVirtualMachine", node |-> node, type |-> type,
                 vmId |-> vmId] IN
       IF ~normalizedBaseUrl.ok
       THEN Throw(c, InvalidUrlError)
       ELSE Await(c,
                <<requestOptions(Url(VmPath(node, type, vmId) \o <<"status", "start">>,
                                     normalizedBaseUrl), "POST", <<>>),
                  requestOptions(Url(VmPath(node, type, vmId) \o <<"status", "current">>,
                                     normalizedBaseUrl), "GET", <<>>)>>)

startVirtualMachine(node, type, vmId) ==
    /\ CanCall
    /\ SingleRequest([op |-> "startVirtualMachine", node |-> node, type |-> type,
                      vmId |-> vmId],
                     VmPath(node, type, vmId) \o <<"status", "start">>, "POST", <<>>)

stopVirtualMachine(node, type, vmId) ==
    /\ CanCall
    /\ SingleRequest([op |-> "stopVirtualMachine", node |-> node, type |-> type,
                      vmId |-> vmId],
                     VmPath(node, type, vmId) \o <<"status", "stop">>, "POST", <<>>)

restartVirtualMachine(node, type, vmId) ==
    /\ CanCall
    /\ SingleRequest([op |-> "restartVirtualMachine", node |-> node, type |-> type,
                      vmId |-> vmId],
                     VmPath(node, type, vmId) \o <<"status", "reboot">>, "POST", <<>>)

listSnapshots(node, type, vmId) ==
    /\ CanCall
    /\ SingleRequest([op |-> "listSnapshots", node |-> node, type |-> type,
                      vmId |-> vmId],
                     VmPath(node, type, vmId) \o <<"snapshot">>, "GET", <<>>)

\* createSnapshot sending the name under the key "name".
createSnapshotMutant(node, type, vmId, name) ==
    /\ CanCall
    /\ SingleRequest([op |-> "createSnapshot", node |-> node, type |-> type,
                      vmId |-> vmId, name |-> name],
                     VmPath(node, type, vmId) \o <<"snapshot">>, "POST",
                     <<[key |-> "name", value |-> name]>>)

createSnapshot(node, type, vmId, name) ==
    /\ CanCall
    /\ SingleRequest([op |-> "createSnapshot", node |-> node, type |-> type,
                      vmId |-> vmId, name |-> name],
                     VmPath(node, type, vmId) \o <<"snapshot">>, "POST",
                     <<[key |-> "snapname", value |-> name]>>)

deleteSnapshot(node, type, vmId, name) ==
    /\ CanCall
    /\ SingleRequest([op |-> "deleteSnapshot", node |-> node, type |-> type,
                      vmId |-> vmId, name |-> name],
                     VmPath(node, type, vmId) \o <<"snapshot", encodeURIComponent(name)>>,
                     "DELETE", <<>>)

restoreSnapshot(node, type, vmId, name) ==
    /\ CanCall
    /\ SingleRequest([op |-> "restoreSnapshot", node |-> node, type |-> type,
                      vmId |-> vmId, name |-> name],
                     VmPath(node, type, vmId)
                         \o <<"snapshot", encodeURIComponent(name), "rollback">>,
                     "POST", <<>>)

\* What the operation returns once every request it awaits has resolved.
Result(c, reqs) ==
    CASE c.op = "listNodes" -> listNodesResult(reqs[1].value)
      [] c.op = "listVirtualMachines" ->
            listVirtualMachinesResult(c.node, reqs[1].value, reqs[2].value)
      [] c.op = "getVirtualMachineDetails" ->
            getVirtualMachineDetailsResult(c.node, c.type, c.vmId, reqs[1].value)
      [] c.op = "listSnapshots" -> listSnapshotsResult(reqs[1].value)
      [] OTHER -> "undefined"

\* Settle with Promise.allSettled in place of Promise.all: a rejection no
\* longer rejects the call, which resolves with whatever was fetched.
SettleMutant(reqs, i) ==
    IF outcome.state # "pending" THEN outcome
    ELSE IF \A j \in 1..Len(reqs) : reqs[j].state # "pending"
    THEN IF \A j \in 1..Len(reqs) : reqs[j].state = "rejected"
         THEN [state |-> "rejected", error |-> reqs[i].error]
         ELSE [state |-> "resolved",
               value |-> Result(call,
                   [j \in 1..Len(reqs) |->
                       IF reqs[j].state = "resolved" THEN reqs[j]
                       ELSE reqs[j] @@ [value |-> NoData]])]
    ELSE outcome

\* The operation's promise after request i settled: await on one request,
\* Promise.all on the two of listVirtualMachines (the first rejection
\* rejects it; it resolves when every request has resolved).
Settle(reqs, i) ==
    IF outcome.state # "pending" THEN outcome
    ELSE IF reqs[i].state = "rejected"
    THEN [state |-> "rejected", error |-> reqs[i].error]
    ELSE IF \A j \in 1..Len(reqs) : reqs[j].state = "resolved"
    THEN [state |-> "resolved", value |-> Result(call, reqs)]
    ELSE outcome

\* A pending request is answered with one of the given responses: res
\* 'end' fires.
responseEndWith(responses) ==
    \E i \in 1..Len(requests) :
        /\ requests[i].state = "pending"
        /\ \E res \in responses :
             LET reqs == [requests EXCEPT ![i] = onEnd(requests[i], res)] IN
             /\ requests' = reqs
             /\ outcome' = Settle(reqs, i)
        /\ UNCHANGED <<host, apiToken, allowInsecure, call>>

\* The remote answers a pending request.
responseEnd == responseEndWith(Responses(call.op))

\* The transport fails a pending request: req 'error' fires.
requestError ==
    \E i \in 1..Len(requests) :
        /\ requests[i].state = "pending"
        /\ \E err \in TransportErrors :
             LET reqs == [requests EXCEPT ![i] = onError(requests[i], err)] IN
             /\ requests' = reqs
             /\ outcome' = Settle(reqs, i)
        /\ UNCHANGED <<host, apiToken, allowInsecure, call>>

\* The caller's await on the settled promise completes; the client, which
\* keeps nothing of the call, is ready for the next one.  A request of a
\* rejected Promise.all that is still in flight is no longer observed.
Return ==
    /\ outcome.state \in {"resolved", "rejected"}
    /\ call' = [op |-> "none"]
    /\ outcome' = [state |-> "idle"]
    /\ requests' = <<>>
    /\ UNCHANGED <<host, apiToken, allowInsecure>>

\* A step of the client on its own leaves the extension as it is.
ClientOnly == UNCHANGED extensionVars

Next ==
    \/ listNodes /\ ClientOnly
    \/ \E node \in NodeNames : listVirtualMachines(node) /\ ClientOnly
    \/ \E node \in NodeNames, type \in VmTypes, vmId \in VmIds :
         \/ getVirtualMachineDetails(node, type, vmId) /\ ClientOnly
         \/ startVirtualMachine(node, type, vmId) /\ ClientOnly
         \/ stopVirtualMachine(node, type, vmId) /\ ClientOnly
         \/ restartVirtualMachine(node, type, vmId) /\ ClientOnly
         \/ listSnapshots(node, type, vmId) /\ ClientOnly
         \/ \E name \in SnapshotNames :
              \/ createSnapshot(node, type, vmId, name) /\ ClientOnly
              \/ deleteSnapshot(node, type, vmId, name) /\ ClientOnly
              \/ restoreSnapshot(node, type, vmId, name) /\ ClientOnly
    \/ responseEnd /\ ClientOnly
    \/ requestError /\ ClientOnly
    \/ Return /\ ClientOnly

Spec == Init /\ [][Next]_vars

(***************************************************************************)
(* The extension: inputs                                                   *)
(***************************************************************************)
\* proxmox.host as the user configured it
SettingHosts == { <<" ">>, <<"https:", "//h:8006">> }

\* proxmox.apiToken (deprecated) as the user configured it
SettingTokens == { <<>>, <<" ", "u@pve!t=legacy">> }

\* proxmox.confirmStart, confirmStop and confirmRestart together
ConfirmSettings ==
    { <<TRUE, TRUE, TRUE>>, <<TRUE, FALSE, FALSE>>, <<FALSE, TRUE, FALSE>>,
      <<FALSE, FALSE, TRUE>> }

ExtensionSettings ==
    { [host |-> h, apiToken |-> t, allowInsecure |-> a,
       confirmStart |-> c[1], confirmStop |-> c[2], confirmRestart |-> c[3]] :
        h \in SettingHosts, t \in SettingTokens, a \in BOOLEAN, c \in ConfirmSettings }

\* What Secret Storage holds under 'proxmox.apiToken' at activation
StoredTokens == { Null, {<<"u@pve!t=secret">>} }

\* The guest and snapshot of the explorer items a tree command is run on
TreeVm ==
    [id |-> 100, name |-> <<"web">>, status |-> "running", type |-> "qemu",
     node |-> "pve1"]

\* item?.data of the explorer item handed to a tree command: none, a guest
\* item, a snapshot item
TreeItems ==
    { [vm |-> Null, snapshotName |-> Null],
      [vm |-> {TreeVm}, snapshotName |-> Null],
      [vm |-> {TreeVm}, snapshotName |-> {"snap2"}] }

\* The key sets the user ticks in the filter picker
FilterChoices == { {}, {"lxc"}, {"qemu", "running"}, {"lxc", "running"} }

\* The documents the remote answers the extension's calls with
InventoryDocuments(op) ==
    CASE op = "listNodes" ->
            { [data |-> <<>>],
              [data |-> <<[node |-> "pve1", status |-> "online"],
                          [node |-> "pve2", status |-> "offline"]>>] }
      [] op = "listVirtualMachines" ->
            { [data |-> <<>>],
              [data |-> <<[vmid |-> 100, name |-> <<"web">>, status |-> "running"],
                          [vmid |-> 50, name |-> <<>>, status |-> "stopped"]>>] }
      [] op = "listSnapshots" ->
            { [data |-> <<[name |-> "current"]>>],
              [data |-> <<[name |-> "snap1", snaptime |-> 1700], [name |-> "snap2"]>>] }
      [] op = "getVirtualMachineDetails" ->
            { [data |-> [name |-> <<" ", "web">>, status |-> "running", uptime |-> 5,
                         cpu |-> 1, mem |-> 2, maxmem |-> 4]] }
      [] OTHER -> { [data |-> "UPID:pve1:0001"] }

\* What the remote answers a request of the extension with
InventoryResponses(op) ==
    { [statusCode |-> 200, body |-> [valid |-> TRUE, value |-> d]] :
        d \in InventoryDocuments(op) }
        \cup { [statusCode |-> 500,
                body |-> [valid |-> FALSE, text |-> "permission denied"]] }

\* generateSnapshotName(template) for the default template at the time of
\* the run
generateSnapshotName == "snapshot-20261104-1200"

(***************************************************************************)
(* The extension: what a handler does between two awaits                   *)
(***************************************************************************)
\* The element of a non-empty Optional
The(optional) == CHOOSE v \in optional : TRUE

\* What a step of invocation i works on: its frame and the state the
\* handlers share.
World(i) ==
    [f |-> running[i], statusState |-> statusState, lastRefresh |-> lastRefresh,
     lastError |-> lastError, secrets |-> secrets,
     suppressInsecureWarning |-> suppressInsecureWarning,
     warningSeen |-> warningSeen,
     calls |-> calls]

\* The commands run by the user create their client interactively; the
\* timer's handler and the explorer's getChildren do not.
Interactive(f) == f.cmd \notin {"backgroundRefresh", "getChildren"}

\* vscode.window.show{Information,Warning,Error}Message without buttons
show(w, kind, text) ==
    [w EXCEPT !.f.shown = Append(@, [kind |-> kind, text |-> text])]

\* The same for a message built around a value
showAbout(w, kind, text, detail) ==
    [w EXCEPT !.f.shown = Append(@, [kind |-> kind, text |-> text, detail |-> detail])]

\* The handler awaits the user's answer to a message with buttons, a modal
\* or a picker over items.
ask(w, prompt, items) ==
    [w EXCEPT !.f.pc = "prompt", !.f.prompt = prompt, !.f.items = items]

\* The handler calls an operation on its client and awaits it.
invoke(w, op) == [w EXCEPT !.f.pc = "call", !.f.op = op]

\* The handler returns.
return(w) == [w EXCEPT !.f.pc = "returned"]

\* new Date()
Now == "now"

\* markConnected leaving the last error in place.
markConnectedMutant(w) ==
    [w EXCEPT !.statusState = "connected", !.lastRefresh = {Now},
              !.calls.failedSinceConnected = FALSE]

markConnected(w) ==
    [w EXCEPT !.statusState = "connected", !.lastRefresh = {Now}, !.lastError = Null,
              !.calls.failedSinceConnected = FALSE]

markDisconnected(w, errorMessage) ==
    [w EXCEPT !.statusState = "disconnected", !.lastRefresh = {Now},
              !.lastError = {errorMessage}]

\* What the start, stop and restart actions differ in
Lifecycle ==
    [start |-> [setting |-> "confirmStart", op |-> "startVirtualMachine",
                label |-> "Start", done |-> "Started"],
     stop |-> [setting |-> "confirmStop", op |-> "stopVirtualMachine",
               label |-> "Stop", done |-> "Stopped"],
     restart |-> [setting |-> "confirmRestart", op |-> "restartVirtualMachine",
                  label |-> "Restart", done |-> "Restarted"]]

TreeLifecycleCommands ==
    [treeStartVm |-> "start", treeStopVm |-> "stop", treeRestartVm |-> "restart"]

TreeCommands ==
    DOMAIN TreeLifecycleCommands \cup {"treeCreateSnapshot", "treeRestoreSnapshot"}

\* The commands that walk the node, filter and guest pickers
PickCommands ==
    {"listVms", "vmAction", "snapshotActions", "restoreSnapshot", "createSnapshot"}

\* client.<op>(vm.node, vm.type, vm.id)
GuestCall(op, vm) == [op |-> op, node |-> vm.node, type |-> vm.type, vmId |-> vm.id]

\* client.<op>(vm.node, vm.type, vm.id, name)
SnapshotCall(op, vm, name) ==
    [op |-> op, node |-> vm.node, type |-> vm.type, vmId |-> vm.id, name |-> name]

\* The user's answer to a prompt: a button, an item of a picker, a set of
\* ticked items, or none of them (the prompt was dismissed).
Dismissed == [dismissed |-> TRUE]

Chose(answer, label) == "label" \in DOMAIN answer /\ answer.label = label

Picked(answer) == "item" \in DOMAIN answer

\* new ProxmoxExplorerItem(label, None, 'empty')
EmptyItem(label) == [kind |-> "empty", label |-> label]

\* getChildren returns items.
returnChildren(w, items) == return([w EXCEPT !.f.children = {items}])

\* createClient has returned null: every command returns, getChildren
\* returns its one 'empty' item.
withoutClient(w) ==
    IF w.f.cmd = "getChildren"
    THEN returnChildren(w, <<EmptyItem("Configure Proxmox settings to load data")>>)
    ELSE return(w)

\* getChildren with its client: what it fetches for the element expanded
getChildrenWithClient(w) ==
    LET element == w.f.element IN
    IF element = Null
    THEN invoke(w, [op |-> "listNodes"])
    ELSE LET item == The(element) IN
         IF item.kind = "node" /\ "nodeName" \in DOMAIN item.data /\ item.data.nodeName # ""
         THEN invoke(w, [op |-> "listVirtualMachines", node |-> item.data.nodeName])
         ELSE IF item.kind = "vm" /\ "vm" \in DOMAIN item.data
         THEN invoke(w, GuestCall("listSnapshots", item.data.vm))
         ELSE returnChildren(w, <<>>)

\* The first client call of a handler that has obtained its client.
withClient(w) ==
    LET f == w.f IN
    IF f.cmd = "getChildren"
    THEN getChildrenWithClient(w)
    ELSE IF f.cmd \in DOMAIN TreeLifecycleCommands
    THEN invoke(w, GuestCall(Lifecycle[f.action].op, The(f.vm)))
    ELSE IF f.cmd = "treeCreateSnapshot"
    THEN invoke([w EXCEPT !.f.snapshot = generateSnapshotName],
                SnapshotCall("createSnapshot", The(f.vm), generateSnapshotName))
    ELSE IF f.cmd = "treeRestoreSnapshot"
    THEN invoke(w, SnapshotCall("restoreSnapshot", The(f.vm), f.snapshot))
    ELSE invoke(w, [op |-> "listNodes"])

\* return new ProxmoxClient({ host, apiToken, allowInsecure }), and on in
\* the caller
newProxmoxClient(w, token) ==
    withClient([w EXCEPT !.f.token = Null,
                         !.f.client = {[host |-> settings.host,
                                        apiToken |-> The(token),
                                        allowInsecure |-> settings.allowInsecure]}])

\* createClient going on to construct the client after "Don't show again".
insecureWarningAnsweredMutant(w, answer) ==
    LET w1 == IF Chose(answer, "Don't show again")
              THEN [w EXCEPT !.suppressInsecureWarning = TRUE]
              ELSE w
    IN IF answer = Dismissed
       THEN return([w1 EXCEPT !.statusState = "unknown", !.f.token = Null])
       ELSE newProxmoxClient(w1, w1.f.token)

\* createClient after the insecure-TLS warning was answered; every caller
\* returns when createClient returns null.
insecureWarningAnswered(w, answer) ==
    LET w1 == IF Chose(answer, "Don't show again")
              THEN [w EXCEPT !.suppressInsecureWarning = TRUE]
              ELSE w
    IN IF ~Chose(answer, "Continue")
       THEN withoutClient([w1 EXCEPT !.statusState = "unknown", !.f.token = Null])
       ELSE newProxmoxClient(w1, w1.f.token)

\* createClient from the point where getApiToken has returned apiToken (an
\* Optional) to its next await or its return
createClientWithToken(w, token) ==
    IF Trim(settings.host) = <<>>
    THEN withoutClient(IF Interactive(w.f)
                       THEN show(w, "error", "Proxmox host is not configured.")
                       ELSE w)
    ELSE IF token = Null
    THEN withoutClient(w)
    ELSE IF Interactive(w.f) /\ settings.allowInsecure /\ ~w.suppressInsecureWarning
    THEN ask([w EXCEPT !.f.token = token, !.warningSeen = TRUE], "insecureWarning", <<>>)
    ELSE newProxmoxClient(w, token)

\* The end of getApiToken when no token was found or accepted
tokenMissing(w) ==
    createClientWithToken(
        IF Interactive(w.f)
        THEN show(w, "error",
                  "Proxmox API token is not configured. Run Proxmox: Set API Token.")
        ELSE w,
        Null)

\* getApiToken after the user answered 'Move it to Secret Storage?'
moveTokenAnswered(w, answer) ==
    LET legacyToken == Trim(settings.apiToken) IN
    IF Chose(answer, "Move")
    THEN createClientWithToken(
             show([w EXCEPT !.secrets = {legacyToken}], "info",
                  "Proxmox API token saved in Secret Storage."),
             {legacyToken})
    ELSE IF Chose(answer, "Use Once")
    THEN createClientWithToken(w, {legacyToken})
    ELSE tokenMissing(w)

\* getApiToken preferring the token of the settings to the stored one.
getApiTokenMutant(w) ==
    LET legacyToken == Trim(settings.apiToken) IN
    IF legacyToken # <<>>
    THEN IF Interactive(w.f)
         THEN ask(w, "moveToken", <<>>)
         ELSE createClientWithToken(w, {legacyToken})
    ELSE IF w.secrets # Null /\ The(w.secrets) # <<>>
    THEN createClientWithToken(w, w.secrets)
    ELSE tokenMissing(w)

\* getApiToken once context.secrets.get has answered
getApiToken(w) ==
    IF w.secrets # Null /\ The(w.secrets) # <<>>
    THEN createClientWithToken(w, w.secrets)
    ELSE LET legacyToken == Trim(settings.apiToken) IN
         IF legacyToken # <<>>
         THEN IF Interactive(w.f)
              THEN ask(w, "moveToken", <<>>)
              ELSE createClientWithToken(w, {legacyToken})
         ELSE tokenMissing(w)

\* createClient up to its first await, the read of Secret Storage
createClient(w) == [w EXCEPT !.f.pc = "getApiToken"]

\* The continuation of a confirmed lifecycle action: the tree commands go
\* on to create their client, the VM Actions menu already has one.
vmActionConfirmed(w) ==
    IF w.f.cmd \in TreeCommands
    THEN createClient(w)
    ELSE invoke(w, GuestCall(Lifecycle[w.f.action].op, The(w.f.vm)))

\* confirmVmAction with the setting read but never asking.
confirmVmActionMutant(w) ==
    IF settings[Lifecycle[w.f.action].setting]
    THEN vmActionConfirmed(w)
    ELSE ask(w, "confirmVm", <<>>)

\* confirmVmAction, and the caller's branch on its result
confirmVmAction(w) ==
    IF ~settings[Lifecycle[w.f.action].setting]
    THEN vmActionConfirmed(w)
    ELSE ask(w, "confirmVm", <<>>)

confirmVmAnswered(w, answer) ==
    IF Chose(answer, "Confirm") THEN vmActionConfirmed(w) ELSE return(w)

\* selectVmFilters on the ticked keys
selectVmFilters(keys) ==
    LET includeQemu == "qemu" \in keys
        includeLxc == "lxc" \in keys
    IN [includeQemu |-> includeQemu \/ (~includeQemu /\ ~includeLxc),
        includeLxc |-> includeLxc \/ (~includeQemu /\ ~includeLxc),
        runningOnly |-> "running" \in keys]

filterVms(vms, filters) ==
    LET Match(vm) ==
            /\ \/ filters.includeQemu /\ vm.type = "qemu"
               \/ filters.includeLxc /\ vm.type = "lxc"
            /\ ~filters.runningOnly \/ vm.status = "running"
    IN SelectSeq(vms, Match)

\* The text each handler's catch block puts before the error message
FailurePrefix ==
    [listNodes |-> "Failed to list Proxmox nodes: ",
     backgroundRefresh |-> "Failed to list Proxmox nodes: ",
     listVms |-> "Failed to list Proxmox VMs: ",
     vmAction |-> "Failed to manage Proxmox VM: ",
     snapshotActions |-> "Failed to manage snapshots: ",
     restoreSnapshot |-> "Failed to restore snapshot: ",
     createSnapshot |-> "Failed to create snapshot: ",
     testConnection |-> "Proxmox connection test failed: ",
     treeStartVm |-> "Failed to start VM: ",
     treeStopVm |-> "Failed to stop VM: ",
     treeRestartVm |-> "Failed to restart VM: ",
     treeCreateSnapshot |-> "Failed to create snapshot: ",
     treeRestoreSnapshot |-> "Failed to restore snapshot: "]

\* The catch block of a handler, with the notification shown whoever runs.
catchMutant(w, error) ==
    LET message == error.message IN
    return(showAbout(markDisconnected(w, message), "error",
                     FailurePrefix[w.f.cmd], message))

\* The catch block of a handler: refreshNodes notifies only when it is
\* interactive, the commands always.
catch(w, error) ==
    LET message == error.message
        w1 == markDisconnected(w, message)
    IN return(IF Interactive(w.f)
              THEN showAbout(w1, "error", FailurePrefix[w.f.cmd], message)
              ELSE w1)

\* After await client.listNodes(): refreshNodes, testConnection, selectNode
listNodesResolved(w, nodes) ==
    LET f == w.f IN
    IF f.cmd \in {"listNodes", "backgroundRefresh"}
    THEN LET w1 == markConnected(w) IN
         IF ~Interactive(f)
         THEN return(w1)
         ELSE IF nodes = <<>>
         THEN return(show(w1, "info", "No Proxmox nodes found."))
         ELSE ask(w1, "pickNode", nodes)
    ELSE IF f.cmd = "testConnection"
    THEN return(showAbout(markConnected(w), "info", "Connected to Proxmox. Nodes: ",
                          Len(nodes)))
    ELSE IF nodes = <<>>
    THEN return(show(markConnected(w), "info", "No Proxmox nodes found."))
    ELSE ask(w, "pickNode", nodes)

\* After await client.listVirtualMachines(nodeName)
listVirtualMachinesResolved(w, vms) ==
    LET f == w.f
        filteredVms == filterVms(vms, The(f.filters))
        w1 == [(IF f.cmd = "listVms" THEN markConnected(w) ELSE w)
                  EXCEPT !.f.filters = Null]
    IN IF filteredVms = <<>>
       THEN return(showAbout(IF f.cmd = "listVms" THEN w1 ELSE markConnected(w1),
                             "info", "No VMs found with the selected filters on ",
                             f.node))
       ELSE ask(w1, "pickVm", filteredVms)

\* After await client.listSnapshots(...)
listSnapshotsResolved(w, snapshots) ==
    LET w1 == IF w.f.action = "list" THEN markConnected(w) ELSE w IN
    IF snapshots = <<>>
    THEN return(show(markConnected(w1), "info", "No snapshots found."))
    ELSE ask(w1, "pickSnapshot", snapshots)

\* String.prototype.toUpperCase on a guest type
toUpperCase(type) == IF type = "qemu" THEN "QEMU" ELSE "LXC"

\* The explorer item of a node
NodeItem(node) ==
    [kind |-> "node", label |-> node.name, description |-> node.status,
     data |-> [nodeName |-> node.name]]

\* The explorer item of a guest
VmItem(vm) ==
    [kind |-> "vm", label |-> vm.name \o <<" (", ToString(vm.id), ")">>,
     description |-> <<toUpperCase(vm.type), " \\u2022 ", vm.status>>,
     data |-> [nodeName |-> vm.node, vm |-> vm]]

\* The explorer item of a snapshot of vm; the description is the date of
\* createdAt * 1000 when createdAt is truthy, undefined otherwise.
SnapshotItem(snapshot, vm) ==
    [kind |-> "snapshot", label |-> snapshot.name,
     description |-> IF snapshot.createdAt # Null /\ The(snapshot.createdAt) # 0
                     THEN {The(snapshot.createdAt) * 1000}
                     ELSE Null,
     data |-> [snapshotName |-> snapshot.name, snapshotTime |-> snapshot.createdAt,
               vm |-> vm]]

\* getChildren's catch block returning nothing at all.
getChildrenCatchMutant(w, error) == returnChildren(w, <<>>)

\* getChildren's catch block: the one 'error' item
getChildrenCatch(w, error) ==
    returnChildren(w, <<[kind |-> "error", label |-> "Failed to load Proxmox data",
                         description |-> error.message]>>)

\* getChildren after its fetch has resolved
getChildrenResolved(w, op, fetched) ==
    IF fetched = <<>>
    THEN returnChildren(w, <<EmptyItem(CASE op = "listNodes" -> "No nodes found"
                                         [] op = "listVirtualMachines" -> "No VMs found"
                                         [] op = "listSnapshots" -> "No snapshots")>>)
    ELSE returnChildren(w,
             [k \in 1..Len(fetched) |->
                 CASE op = "listNodes" -> NodeItem(fetched[k])
                   [] op = "listVirtualMachines" -> VmItem(fetched[k])
                   [] op = "listSnapshots" ->
                         SnapshotItem(fetched[k], The(w.f.element).data.vm)])

\* After an awaited client call has resolved
resolved(w, value) ==
    LET f == w.f
        op == f.op.op
        w1 == [w EXCEPT !.f.op = [op |-> "none"], !.f.pc = "running"]
    IN CASE f.cmd = "getChildren" -> getChildrenResolved(w1, op, value)
         [] op = "listNodes" -> listNodesResolved(w1, value)
         [] op = "listVirtualMachines" -> listVirtualMachinesResolved(w1, value)
         [] op = "listSnapshots" -> listSnapshotsResolved(w1, value)
         [] op = "getVirtualMachineDetails" ->
               return(showAbout(markConnected(w1), "info", "details", value))
         [] op = "createSnapshot" ->
               return(showAbout(markConnected(w1), "info", "Created snapshot ",
                                f.snapshot))
         [] op = "deleteSnapshot" ->
               return(showAbout(markConnected(w1), "info", "Deleted snapshot ",
                                f.snapshot))
         [] op = "restoreSnapshot" ->
               return(showAbout(markConnected(w1), "info", "Restored snapshot ",
                                f.snapshot))
         [] OTHER ->
               return(showAbout(markConnected(w1), "info", Lifecycle[f.action].done,
                                The(f.vm)))

\* After an awaited client call was rejected
rejected(w, error) ==
    LET w1 == [w EXCEPT !.f.op = [op |-> "none"], !.f.pc = "running"] IN
    IF w.f.cmd = "getChildren" THEN getChildrenCatch(w1, error) ELSE catch(w1, error)

\* After the node picker
pickNodeAnswered(w, answer) ==
    IF w.f.cmd = "listNodes"
    THEN IF Picked(answer)
         THEN return(showAbout(w, "info", "Selected node: ", answer.item))
         ELSE return(w)
    ELSE IF ~Picked(answer) \/ answer.item.name = ""
    THEN return(w)
    ELSE ask([w EXCEPT !.f.node = answer.item.name], "pickFilters", <<>>)

\* After the filter picker
pickFiltersAnswered(w, answer) ==
    IF "keys" \notin DOMAIN answer
    THEN return(w)
    ELSE invoke([w EXCEPT !.f.filters = {selectVmFilters(answer.keys)}],
                [op |-> "listVirtualMachines", node |-> w.f.node])

\* After the guest picker
pickVmAnswered(w, answer) ==
    IF ~Picked(answer)
    THEN return(w)
    ELSE LET vm == answer.item
             w1 == [w EXCEPT !.f.vm = {vm}, !.f.node = ""]
         IN CASE w.f.cmd = "listVms" -> return(showAbout(w1, "info", "Selected VM: ", vm))
              [] w.f.cmd = "vmAction" ->
                    ask(w1, "pickAction", <<"details", "start", "stop", "restart">>)
              [] w.f.cmd = "snapshotActions" ->
                    ask(w1, "pickSnapshotAction", <<"list", "create", "restore", "delete">>)
              [] w.f.cmd = "restoreSnapshot" ->
                    invoke([w1 EXCEPT !.f.action = "restore"], GuestCall("listSnapshots", vm))
              [] w.f.cmd = "createSnapshot" ->
                    invoke([w1 EXCEPT !.f.snapshot = generateSnapshotName],
                           SnapshotCall("createSnapshot", vm, generateSnapshotName))

\* After the action picker of VM Actions
pickActionAnswered(w, answer) ==
    IF ~Picked(answer)
    THEN return(w)
    ELSE LET action == answer.item IN
         IF action = "details"
         THEN invoke(w, GuestCall("getVirtualMachineDetails", The(w.f.vm)))
         ELSE confirmVmAction([w EXCEPT !.f.action = action])

\* After the action picker of Snapshot Actions
pickSnapshotActionAnswered(w, answer) ==
    IF ~Picked(answer)
    THEN return(w)
    ELSE LET action == answer.item IN
         IF action = "create"
         THEN invoke([w EXCEPT !.f.snapshot = generateSnapshotName],
                     SnapshotCall("createSnapshot", The(w.f.vm), generateSnapshotName))
         ELSE invoke([w EXCEPT !.f.action = action],
                     GuestCall("listSnapshots", The(w.f.vm)))

\* After the snapshot picker
pickSnapshotAnswered(w, answer) ==
    IF ~Picked(answer)
    THEN return(w)
    ELSE LET label == answer.item.name IN
         IF w.f.action = "list"
         THEN return(showAbout(w, "info", "Snapshot: ", label))
         ELSE ask([w EXCEPT !.f.snapshot = label], "confirmSnapshot", <<>>)

\* The button of the modal that guards a snapshot's deletion or restore
SnapshotButton(f) == IF f.action = "delete" THEN "Delete" ELSE "Restore"

\* The modal's answer ignored: the snapshot call is made whatever it was.
confirmSnapshotAnsweredMutant(w, answer) ==
    IF w.f.cmd \in TreeCommands
    THEN createClient(w)
    ELSE invoke(w, SnapshotCall(IF w.f.action = "delete" THEN "deleteSnapshot"
                                ELSE "restoreSnapshot",
                                The(w.f.vm), w.f.snapshot))

\* After the Delete snapshot? / Restore snapshot? modal
confirmSnapshotAnswered(w, answer) ==
    IF ~Chose(answer, SnapshotButton(w.f))
    THEN return(w)
    ELSE IF w.f.cmd \in TreeCommands
    THEN createClient(w)
    ELSE invoke(w, SnapshotCall(IF w.f.action = "delete" THEN "deleteSnapshot"
                                ELSE "restoreSnapshot",
                                The(w.f.vm), w.f.snapshot))

\* The buttons a prompt offers
Buttons(f) ==
    CASE f.prompt = "moveToken" -> {"Move", "Use Once"}
      [] f.prompt = "insecureWarning" -> {"Continue", "Don't show again"}
      [] f.prompt = "confirmVm" -> {"Confirm"}
      [] f.prompt = "confirmSnapshot" -> {SnapshotButton(f)}
      [] OTHER -> {}

\* What the user can answer the open prompt with
Answers(f) ==
    {Dismissed}
        \cup { [label |-> l] : l \in Buttons(f) }
        \cup (IF f.prompt = "pickFilters"
              THEN { [keys |-> k] : k \in FilterChoices }
              ELSE { [index |-> k, item |-> f.items[k]] : k \in DOMAIN f.items })

\* The handler resumes with the user's answer.
answered(w, answer) ==
    LET f == w.f
        w1 == [w EXCEPT !.f.pc = "running", !.f.prompt = "none", !.f.items = <<>>,
                        !.f.answers =
                            IF "label" \in DOMAIN answer
                            THEN @ \cup {<<f.prompt, answer.label>>}
                            ELSE IF Buttons(f) # {}
                            THEN @ \cup {<<f.prompt, "dismissed">>}
                            ELSE @]
    IN CASE f.prompt = "moveToken" -> moveTokenAnswered(w1, answer)
         [] f.prompt = "insecureWarning" -> insecureWarningAnswered(w1, answer)
         [] f.prompt = "confirmVm" -> confirmVmAnswered(w1, answer)
         [] f.prompt = "confirmSnapshot" -> confirmSnapshotAnswered(w1, answer)
         [] f.prompt = "pickNode" -> pickNodeAnswered(w1, answer)
         [] f.prompt = "pickFilters" -> pickFiltersAnswered(w1, answer)
         [] f.prompt = "pickVm" -> pickVmAnswered(w1, answer)
         [] f.prompt = "pickAction" -> pickActionAnswered(w1, answer)
         [] f.prompt = "pickSnapshotAction" -> pickSnapshotActionAnswered(w1, answer)
         [] f.prompt = "pickSnapshot" -> pickSnapshotAnswered(w1, answer)

\* A handler from its entry to its first await or its return; item is
\* item?.data of the explorer item a tree command was run on.
start(w, item) ==
    LET cmd == w.f.cmd IN
    IF cmd = "getChildren"
    THEN createClient(w)
    ELSE IF cmd \in DOMAIN TreeLifecycleCommands
    THEN IF item.vm = Null
         THEN return(show(w, "error", "No VM selected."))
         ELSE confirmVmAction([w EXCEPT !.f.vm = item.vm,
                                        !.f.action = TreeLifecycleCommands[cmd]])
    ELSE IF cmd = "treeCreateSnapshot"
    THEN IF item.vm = Null
         THEN return(show(w, "error", "No VM selected."))
         ELSE createClient([w EXCEPT !.f.vm = item.vm])
    ELSE IF cmd = "treeRestoreSnapshot"
    THEN IF item.vm = Null \/ item.snapshotName = Null \/ item.snapshotName = {""}
         THEN return(show(w, "error", "No snapshot selected."))
         ELSE ask([w EXCEPT !.f.vm = item.vm, !.f.action = "restore",
                            !.f.snapshot = The(item.snapshotName)],
                  "confirmSnapshot", <<>>)
    ELSE IF cmd = "resetInsecureWarning"
    THEN return(show([w EXCEPT !.suppressInsecureWarning = FALSE], "info",
                     "Proxmox insecure TLS warning has been reset."))
    ELSE createClient([w EXCEPT !.statusState = "connecting"])

(***************************************************************************)
(* The extension as a state machine                                        *)
(***************************************************************************)
\* The step's result is the next state of the extension.
Becomes(i, w) ==
    /\ running' = [running EXCEPT ![i] = w.f]
    /\ statusState' = w.statusState
    /\ lastRefresh' = w.lastRefresh
    /\ lastError' = w.lastError
    /\ secrets' = w.secrets
    /\ suppressInsecureWarning' = w.suppressInsecureWarning
    /\ warningSeen' = w.warningSeen
    /\ calls' = w.calls
    /\ UNCHANGED settings

Entered(i, cmd) ==
    [World(i) EXCEPT !.f = [IdleFrame EXCEPT !.cmd = cmd, !.pc = "running"]]

\* The user runs a command, one at a time.
runCommand(cmd, item) ==
    /\ running["command"].pc = "idle"
    /\ Becomes("command", start(Entered("command", cmd), item))
    /\ UNCHANGED clientVars

\* The refresh timer fires: void refreshNodes(false)
timerFires ==
    /\ running["timer"].pc = "idle"
    /\ Becomes("timer",
               start(Entered("timer", "backgroundRefresh"),
                     [vm |-> Null, snapshotName |-> Null]))
    /\ UNCHANGED clientVars

\* The explorer view asks for the children of the root or of an element
\* it shows: getChildren(element)
getChildren(element) ==
    /\ running["tree"].pc = "idle"
    /\ Becomes("tree",
               start([Entered("tree", "getChildren") EXCEPT !.f.element = element],
                     [vm |-> Null, snapshotName |-> Null]))
    /\ UNCHANGED clientVars

\* context.secrets.get answers and getApiToken, then createClient, run on.
secretRead(i) ==
    /\ running[i].pc = "getApiToken"
    /\ Becomes(i, getApiToken([World(i) EXCEPT !.f.pc = "running"]))
    /\ UNCHANGED clientVars

\* The user answers or dismisses the prompt a handler waits on.
promptAnswered(i) ==
    /\ running[i].pc = "prompt"
    /\ \E answer \in Answers(running[i]) : Becomes(i, answered(World(i), answer))
    /\ UNCHANGED clientVars

\* The handler's client becomes the client whose call is followed: the
\* fields the constructor gave it.  One call is followed at a time.
bindClient(i) ==
    /\ running[i].pc = "call"
    /\ \A j \in Invocations : running[j].pc \notin {"bound", "await"}
    /\ LET config == The(running[i].client) IN
       /\ host' = Trim(config.host)
       /\ apiToken' = Trim(config.apiToken)
       /\ allowInsecure' = config.allowInsecure
    /\ running' = [running EXCEPT ![i].pc = "bound"]
    /\ UNCHANGED <<call, outcome, requests, settings, secrets, suppressInsecureWarning,
                   statusState, lastRefresh, lastError, warningSeen, calls>>

\* The handler calls the operation on its client.
callClient(i) ==
    LET c == running[i].op IN
    /\ running[i].pc = "bound"
    /\ CASE c.op = "listNodes" -> listNodes
         [] c.op = "listVirtualMachines" -> listVirtualMachines(c.node)
         [] c.op = "getVirtualMachineDetails" ->
               getVirtualMachineDetails(c.node, c.type, c.vmId)
         [] c.op = "startVirtualMachine" -> startVirtualMachine(c.node, c.type, c.vmId)
         [] c.op = "stopVirtualMachine" -> stopVirtualMachine(c.node, c.type, c.vmId)
         [] c.op = "restartVirtualMachine" ->
               restartVirtualMachine(c.node, c.type, c.vmId)
         [] c.op = "listSnapshots" -> listSnapshots(c.node, c.type, c.vmId)
         [] c.op = "createSnapshot" -> createSnapshot(c.node, c.type, c.vmId, c.name)
         [] c.op = "deleteSnapshot" -> deleteSnapshot(c.node, c.type, c.vmId, c.name)
         [] c.op = "restoreSnapshot" -> restoreSnapshot(c.node, c.type, c.vmId, c.name)
    /\ running' = [running EXCEPT ![i].pc = "await"]
    /\ UNCHANGED <<settings, secrets, suppressInsecureWarning, statusState,
                   lastRefresh, lastError, warningSeen, calls>>

\* The remote answers a request of the call under way.
remoteAnswers == responseEndWith(InventoryResponses(call.op)) /\ UNCHANGED extensionVars

\* The transport fails a request of the call under way.
transportFails == requestError /\ UNCHANGED extensionVars

\* The awaited call has settled: the handler resumes after its await, or
\* in its catch block.
settled(i) ==
    /\ running[i].pc = "await"
    /\ Return
    /\ LET w == [World(i) EXCEPT !.calls = Settling(@, outcome.state)] IN
       Becomes(i, IF outcome.state = "resolved"
                  THEN resolved(w, outcome.value)
                  ELSE rejected(w, outcome.error))

\* The handler has returned; its locals are gone.
finished(i) ==
    /\ running[i].pc = "returned"
    /\ running' = [running EXCEPT ![i] = IdleFrame]
    /\ UNCHANGED <<clientVars, settings, secrets, suppressInsecureWarning, statusState,
                   lastRefresh, lastError, warningSeen, calls>>

\* The extension is activated with some settings and stored token; no
\* client exists yet.
InitExtension ==
    /\ activate
    /\ settings \in ExtensionSettings
    /\ secrets \in StoredTokens
    /\ suppressInsecureWarning = FALSE
    /\ warningSeen = FALSE
    /\ calls = NoCalls
    /\ constructor([host |-> <<>>, apiToken |-> <<>>, allowInsecure |-> FALSE])
    /\ call = [op |-> "none"]
    /\ outcome = [state |-> "idle"]
    /\ requests = <<>>

Commands ==
    {"listNodes", "testConnection", "resetInsecureWarning"}
        \cup PickCommands \cup TreeCommands

\* The user's commands, one after the other, with no timer run between.
NextCommands ==
    \/ \E cmd \in Commands, item \in TreeItems : runCommand(cmd, item)
    \/ secretRead("command")
    \/ promptAnswered("command")
    \/ bindClient("command")
    \/ callClient("command")
    \/ remoteAnswers
    \/ transportFails
    \/ settled("command")
    \/ finished("command")

SpecCommands == InitExtension /\ [][NextCommands]_vars

\* The commands that can be under way while the timer's refresh runs
BackgroundCommands == {"listNodes", "listVms", "testConnection", "resetInsecureWarning"}

\* The timer's refreshes interleaved with commands.
NextBackground ==
    \/ timerFires
    \/ \E cmd \in BackgroundCommands :
          runCommand(cmd, [vm |-> Null, snapshotName |-> Null])
    \/ \E i \in Invocations :
          \/ secretRead(i)
          \/ bindClient(i)
          \/ callClient(i)
          \/ settled(i)
          \/ finished(i)
    \/ promptAnswered("command")
    \/ remoteAnswers
    \/ transportFails

SpecBackground == InitExtension /\ [][NextBackground]_vars

\* What the explorer view expands: the root (no element), a node item and
\* a guest item that an earlier getChildren returned.
TreeElements ==
    { Null,
      {NodeItem([name |-> "pve1", status |-> "online"])},
      {VmItem(TreeVm)} }

\* The explorer view loading the tree, one getChildren at a time.
NextExplorer ==
    \/ \E element \in TreeElements : getChildren(element)
    \/ secretRead("tree")
    \/ bindClient("tree")
    \/ callClient("tree")
    \/ remoteAnswers
    \/ transportFails
    \/ settled("tree")
    \/ finished("tree")

SpecExplorer == InitExtension /\ [][NextExplorer]_vars

(***************************************************************************)
(* Claims                                                                  *)
(***************************************************************************)
Operations ==
    { "listNodes", "listVirtualMachines", "getVirtualMachineDetails",
      "startVirtualMachine", "stopVirtualMachine", "restartVirtualMachine",
      "listSnapshots", "createSnapshot", "deleteSnapshot", "restoreSnapshot" }

\* C1: whenever one of the ten operations has been called on a client whose
\* trimmed host or trimmed token is empty, the call has failed and no
\* network request has been issued for it (the part of the claim that does
\* not depend on which error the failure carries).
C1_FailsBeforeAnyRequest ==
    (call.op \in Operations /\ (host = <<>> \/ apiToken = <<>>))
        => (outcome.state = "rejected" /\ requests = <<>>)

\* The data array of a resolved request's envelope (response.data ?? []).
DataOf(req) == IF "data" \in DOMAIN req.value THEN req.value.data ELSE <<>>

\* C2: listVirtualMachines issues its qemu and lxc requests together, so
\* that both are in flight before either completes; whichever completes
\* first, a failed request means the call is rejected and carries no guest
\* list, and the call is resolved only if both requests succeeded.
C2_NoPartialGuestList ==
    (call.op = "listVirtualMachines" /\ requests # <<>>)
        => /\ Len(requests) = 2
           /\ requests[1].url.path[Len(requests[1].url.path)] = "qemu"
           /\ requests[2].url.path[Len(requests[2].url.path)] = "lxc"
           /\ (\E j \in 1..2 : requests[j].state = "rejected")
                => (outcome.state = "rejected" /\ "value" \notin DOMAIN outcome)
           /\ outcome.state = "resolved"
                => \A j \in 1..2 : requests[j].state = "resolved"
           /\ (\A j \in 1..2 : requests[j].state = "resolved")
                => outcome.state = "resolved"

\* C2 witness: the lxc request succeeded first with a guest in it, the qemu
\* request failed afterwards, and the call is rejected.
C2_Witness ==
    /\ call.op = "listVirtualMachines"
    /\ Len(requests) = 2
    /\ requests[2].state = "resolved"
    /\ DataOf(requests[2]) # <<>>
    /\ requests[1].state = "rejected"
    /\ outcome.state = "rejected"
    /\ outcome.error = requests[1].error

\* How often x occurs in seq.
Count(seq, x) == Cardinality({ i \in DOMAIN seq : seq[i] = x })

\* The two sequences hold the same elements the same number of times.
SameBag(s, t) ==
    /\ Len(s) = Len(t)
    /\ \A i \in DOMAIN s : Count(s, s[i]) = Count(t, s[i])

\* The remote guest entries of a resolved listVirtualMachines call, each
\* with the collection it came from: qemu entries first, then lxc entries.
RemoteGuests ==
    [i \in DOMAIN DataOf(requests[1]) |-> [entry |-> DataOf(requests[1])[i], type |-> "qemu"]]
        \o [i \in DOMAIN DataOf(requests[2]) |-> [entry |-> DataOf(requests[2])[i], type |-> "lxc"]]

\* The id a guest record gets: the remote vmid, -1 when it is missing.
RemoteId(entry) == IF "vmid" \in DOMAIN entry THEN entry.vmid ELSE -1

GuestsResolved == call.op = "listVirtualMachines" /\ outcome.state = "resolved"

\* C3: a resolved listVirtualMachines call returns exactly N+M records, one
\* per remote entry of its collection (as many records of each id and type
\* as there are remote entries, duplicate and missing ids included), in
\* non-decreasing order of id.
C3_AllGuestsSortedById ==
    GuestsResolved =>
        LET vms == outcome.value
            remote == RemoteGuests
            N == Len(DataOf(requests[1]))
            M == Len(DataOf(requests[2]))
        IN /\ Len(vms) = N + M
           /\ SameBag([i \in DOMAIN vms |-> <<vms[i].id, vms[i].type>>],
                      [i \in DOMAIN remote |->
                          <<RemoteId(remote[i].entry), remote[i].type>>])
           /\ \A i \in 1..(Len(vms) - 1) : vms[i].id <= vms[i + 1].id

\* C3 witness: both collections are non-empty, an id occurs in both, an
\* entry has no id, and the merged list had to be reordered.
C3_Witness ==
    /\ GuestsResolved
    /\ DataOf(requests[1]) # <<>>
    /\ DataOf(requests[2]) # <<>>
    /\ \E i \in DOMAIN DataOf(requests[1]), j \in DOMAIN DataOf(requests[2]) :
          /\ "vmid" \in DOMAIN DataOf(requests[1])[i]
          /\ "vmid" \in DOMAIN DataOf(requests[2])[j]
          /\ DataOf(requests[1])[i].vmid = DataOf(requests[2])[j].vmid
    /\ \E i \in DOMAIN RemoteGuests : "vmid" \notin DOMAIN RemoteGuests[i].entry
    /\ \E i \in DOMAIN RemoteGuests :
          outcome.value[i].id # RemoteId(RemoteGuests[i].entry)

\* Certificate validation is switched off in a request's connection options.
ValidationDisabled(req) ==
    \/ req.rejectUnauthorized = {FALSE}
    \/ \E agent \in req.agent : agent.rejectUnauthorized = FALSE

\* C4: in every request issued, certificate validation is disabled exactly
\* when the URL scheme is not http: and the insecure flag is set; with a
\* secure scheme and the flag clear validation is explicitly enabled and no
\* agent is substituted; with the http: scheme the connection options carry
\* no trust setting at all, whatever the flag is.
C4_InsecureOnlyOnTls ==
    \A i \in DOMAIN requests :
        LET req == requests[i]
            secure == req.url.protocol # "http:"
        IN /\ ValidationDisabled(req) <=> (secure /\ allowInsecure)
           /\ (secure /\ ~allowInsecure)
                => (req.rejectUnauthorized = {TRUE} /\ req.agent = {})
           /\ ~secure => (req.rejectUnauthorized = {} /\ req.agent = {})

\* C4 witness: a request is in flight over TLS with the insecure flag set.
C4_Witness ==
    /\ allowInsecure
    /\ requests # <<>>
    /\ requests[1].url.protocol = "https:"
    /\ requests[1].state = "pending"
    /\ ValidationDisabled(requests[1])

\* Request i has received a whole response.
Responded(i) == "response" \in DOMAIN requests[i]

\* The response's status code is missing or outside 200..299.
NonSuccess(res) == "statusCode" \notin DOMAIN res \/ res.statusCode \notin 200..299

\* The error message has the "Proxmox API error <status>: <body>" form.
ApiErrorForm(err) == "prefix" \in DOMAIN err.message

\* The error message names the response's status code (when it has one) and
\* holds its whole body.
CarriesStatusAndBody(err, res) ==
    /\ ApiErrorForm(err)
    /\ err.message.prefix = "Proxmox API error "
    /\ "statusCode" \in DOMAIN res => err.message.status = ToString(res.statusCode)
    /\ err.message.body = res.body

\* The call was rejected by the failure of request i, or, in
\* listVirtualMachines, by the failure of its other request.
RejectedBy(i) ==
    /\ outcome.state = "rejected"
    /\ \/ outcome.error = requests[i].error
       \/ /\ call.op = "listVirtualMachines"
          /\ \E j \in DOMAIN requests :
                j # i /\ requests[j].state = "rejected" /\ outcome.error = requests[j].error

\* C5 as stated: a response whose status code is missing or outside 200..299
\* makes the operation fail with an error whose message carries that status
\* code and that whole body; the body is not parsed or returned.
C5_BadStatusFailsOperationWithItsBody ==
    \A i \in DOMAIN requests :
        (Responded(i) /\ NonSuccess(requests[i].response))
            => /\ outcome.state = "rejected"
               /\ CarriesStatusAndBody(outcome.error, requests[i].response)
               /\ "value" \notin DOMAIN requests[i]

\* C5 as amended: such a response makes its request fail with an error whose
\* message carries that status code and that whole body, the body is not
\* parsed or returned, and the operation is rejected: with that error, or,
\* in listVirtualMachines, with the error of the other request when that
\* one has failed too.
C5_BadStatusFailsRequestWithItsBody ==
    \A i \in DOMAIN requests :
        (Responded(i) /\ NonSuccess(requests[i].response))
            => /\ requests[i].state = "rejected"
               /\ CarriesStatusAndBody(requests[i].error, requests[i].response)
               /\ "value" \notin DOMAIN requests[i]
               /\ RejectedBy(i)

\* C5 witness: a 500 response with the body "permission denied" has rejected
\* the operation with an error that names 500 and holds that body.
C5_Witness ==
    \E i \in DOMAIN requests :
        /\ Responded(i)
        /\ requests[i].response = [statusCode |-> 500,
                                   body |-> [valid |-> FALSE, text |-> "permission denied"]]
        /\ outcome.state = "rejected"
        /\ outcome.error.message.status = "500"
        /\ outcome.error.message.body.text = "permission denied"

\* The response has a 2xx status and a body that is no JSON document.
MalformedSuccess(res) ==
    "statusCode" \in DOMAIN res /\ res.statusCode \in 200..299 /\ ~res.body.valid

\* A parse failure: the SyntaxError of JSON.parse, not of the API error form.
DecodeFailure(err) == err.name = "SyntaxError" /\ ~ApiErrorForm(err)

\* C6 as stated: a 2xx response whose body is no JSON document makes the
\* operation fail with a decode failure, which never has the API error
\* form; a non-2xx response never produces a parse failure.
C6_MalformedSuccessFailsOperationWithDecodeFailure ==
    \A i \in DOMAIN requests :
        /\ (Responded(i) /\ MalformedSuccess(requests[i].response))
              => (outcome.state = "rejected" /\ DecodeFailure(outcome.error))
        /\ (Responded(i) /\ NonSuccess(requests[i].response))
              => ~DecodeFailure(requests[i].error)

\* C6 as amended: such a response makes its request fail with a decode
\* failure, which never has the API error form, and the operation is
\* rejected: with that failure, or, in listVirtualMachines, with the error
\* of the other request when that one has failed too; a non-2xx response
\* never produces a parse failure.
C6_MalformedSuccessFailsRequestWithDecodeFailure ==
    \A i \in DOMAIN requests :
        /\ (Responded(i) /\ MalformedSuccess(requests[i].response))
              => /\ requests[i].state = "rejected"
                 /\ DecodeFailure(requests[i].error)
                 /\ RejectedBy(i)
        /\ (Responded(i) /\ NonSuccess(requests[i].response))
              => (requests[i].state = "rejected" /\ ~DecodeFailure(requests[i].error))

\* C6 witness: a 200 response with the body "not-json" has rejected the
\* operation with a decode failure.
C6_Witness ==
    \E i \in DOMAIN requests :
        /\ Responded(i)
        /\ requests[i].response = [statusCode |-> 200,
                                   body |-> [valid |-> FALSE, text |-> "not-json"]]
        /\ outcome.state = "rejected"
        /\ DecodeFailure(outcome.error)

\* The positions of the remote snapshots that are real ones: named, and
\* not the "current" pseudo-snapshot.
RealSnapshots(remote) ==
    { i \in DOMAIN remote :
        "name" \in DOMAIN remote[i] /\ remote[i].name \notin {"", "current"} }

\* The k-th smallest member of a set of positions.
Kth(positions, k) ==
    CHOOSE i \in positions : Cardinality({ j \in positions : j <= i }) = k

\* C7: the list a resolved listSnapshots call returns has no entry named
\* "current" and is exactly the remote snapshots that have a non-empty name
\* other than "current", in the remote order, each with createdAt equal to
\* its remote snaptime, or null when it has none.
C7_SnapshotsWithoutCurrent ==
    (call.op = "listSnapshots" /\ outcome.state = "resolved") =>
        LET remote == DataOf(requests[1])
            real == RealSnapshots(remote)
            snapshots == outcome.value
        IN /\ \A k \in DOMAIN snapshots : snapshots[k].name # "current"
           /\ Len(snapshots) = Cardinality(real)
           /\ \A k \in DOMAIN snapshots :
                LET entry == remote[Kth(real, k)] IN
                /\ snapshots[k].name = entry.name
                /\ snapshots[k].createdAt
                      = IF "snaptime" \in DOMAIN entry THEN {entry.snaptime} ELSE {}

\* C7 witness: the remote payload held "current" and a real snapshot with
\* no snaptime, and the call resolved with a list.
C7_Witness ==
    /\ call.op = "listSnapshots"
    /\ outcome.state = "resolved"
    /\ \E i \in DOMAIN DataOf(requests[1]) : DataOf(requests[1])[i] = [name |-> "current"]
    /\ \E k \in DOMAIN outcome.value : outcome.value[k].createdAt = {}

\* C8: a listNodes call whose response is a 2xx JSON document resolves, with
\* one record per remote entry in the remote order, whose status is the
\* remote status when that is exactly "online" or "offline" and "unknown"
\* for every other string and for a missing status.
C8_NodeStatusNormalized ==
    (call.op = "listNodes" /\ requests # <<>> /\ requests[1].state = "resolved") =>
        /\ outcome.state = "resolved"
        /\ LET remote == DataOf(requests[1])
               nodes == outcome.value
           IN /\ Len(nodes) = Len(remote)
              /\ \A i \in DOMAIN remote :
                    IF "status" \in DOMAIN remote[i]
                       /\ remote[i].status \in {"online", "offline"}
                    THEN nodes[i].status = remote[i].status
                    ELSE nodes[i].status = "unknown"

\* C8 witness: listNodes resolved on a payload with an unrecognized status
\* and an entry without status.
C8_Witness ==
    /\ call.op = "listNodes"
    /\ outcome.state = "resolved"
    /\ \E i, j \in DOMAIN DataOf(requests[1]) :
          /\ "status" \notin DOMAIN DataOf(requests[1])[i]
          /\ "status" \in DOMAIN DataOf(requests[1])[j]
          /\ DataOf(requests[1])[j].status \notin {"online", "offline"}
          /\ outcome.value[i].status = "unknown"
          /\ outcome.value[j].status = "unknown"

\* The status a guest record must have for a remote entry.
ExpectedVmStatus(entry) ==
    IF "status" \in DOMAIN entry /\ entry.status \in {"running", "stopped"}
    THEN entry.status
    ELSE "unknown"

\* C9: the guest records of a resolved listVirtualMachines call have, entry
\* for entry, the remote status when that is exactly "running" or "stopped"
\* and "unknown" for every other string and for a missing status.
C9_VmStatusNormalized ==
    GuestsResolved =>
        LET vms == outcome.value
            remote == RemoteGuests
        IN SameBag([i \in DOMAIN vms |-> <<vms[i].id, vms[i].type, vms[i].status>>],
                   [i \in DOMAIN remote |->
                       <<RemoteId(remote[i].entry), remote[i].type,
                         ExpectedVmStatus(remote[i].entry)>>])

\* C9 witness: a resolved guest list over remote entries with an
\* unrecognized status and with no status.
C9_Witness ==
    /\ GuestsResolved
    /\ \E i, j \in DOMAIN RemoteGuests :
          /\ "status" \notin DOMAIN RemoteGuests[i].entry
          /\ "status" \in DOMAIN RemoteGuests[j].entry
          /\ RemoteGuests[j].entry.status \notin {"running", "stopped"}
    /\ \E k \in DOMAIN outcome.value : outcome.value[k].status = "unknown"

\* The name a guest record must have for a remote entry: the trimmed remote
\* name when that is not blank, else "VM <id>" ("VM unknown" without id).
ExpectedVmName(entry) ==
    IF "name" \in DOMAIN entry /\ Trim(entry.name) # <<>>
    THEN Trim(entry.name)
    ELSE IF "vmid" \in DOMAIN entry
         THEN <<"VM", " ", ToString(entry.vmid)>>
         ELSE <<"VM", " ", "unknown">>

\* The scenario of the specification: qemu = [{100, "web", running}] and
\* lxc = [{50, "", stopped}] on node pve1.
Scenario ==
    /\ GuestsResolved
    /\ call.node = "pve1"
    /\ DataOf(requests[1]) = <<[vmid |-> 100, name |-> <<"web">>, status |-> "running"]>>
    /\ DataOf(requests[2]) = <<[vmid |-> 50, name |-> <<>>, status |-> "stopped"]>>

\* C10: the guest records of a resolved listVirtualMachines(node) call
\* carry, entry for entry, the requested node, the type of the collection
\* the entry came from, and the trimmed remote name or, when that is blank
\* or missing, the placeholder for the entry's id; in the scenario the
\* result is exactly the lxc guest 50 "VM 50" followed by the qemu guest
\* 100 "web".
C10_GuestRecordFields ==
    GuestsResolved =>
        /\ LET vms == outcome.value
               remote == RemoteGuests
           IN SameBag([i \in DOMAIN vms |->
                          <<vms[i].id, vms[i].type, vms[i].node, vms[i].name>>],
                      [i \in DOMAIN remote |->
                          <<RemoteId(remote[i].entry), remote[i].type,
                            call.node, ExpectedVmName(remote[i].entry)>>])
        /\ Scenario =>
             outcome.value =
                <<[id |-> 50, name |-> <<"VM", " ", "50">>, status |-> "stopped",
                   type |-> "lxc", node |-> "pve1"],
                  [id |-> 100, name |-> <<"web">>, status |-> "running",
                   type |-> "qemu", node |-> "pve1"]>>

\* C10 witness: the scenario has been played and the call resolved.
C10_Witness == Scenario /\ Len(outcome.value) = 2

\* How the remote reads one application/x-www-form-urlencoded value.
FormDecode(s) == IF s = "pre+upgrade" THEN "pre upgrade" ELSE s

\* C11: a createSnapshot(node, type, id, name) call on a client with a
\* usable base URL has issued exactly one request, a POST to the snapshot
\* collection of that guest, whose written form body has exactly one field,
\* snapname, that decodes to the supplied name; the requests of every other
\* operation (the GETs, the DELETE, the lifecycle and rollback POSTs) have
\* nothing written and announce no content type or length.
C11_SnapshotBodyIsSnapname ==
    /\ (call.op = "createSnapshot" /\ normalizedBaseUrl.ok) => Len(requests) = 1
    /\ \A i \in 1..Len(requests) :
         LET req == requests[i] IN
         IF call.op = "createSnapshot"
         THEN /\ req.method = "POST"
              /\ req.url.path = <<"api2", "json", "nodes", encodeURIComponent(call.node),
                                  call.type, ToString(call.vmId), "snapshot">>
              /\ Len(req.written) = 1
              /\ req.written[1].key = "snapname"
              /\ FormDecode(req.written[1].value) = call.name
              /\ req.headers.ContentType = "application/x-www-form-urlencoded"
         ELSE /\ req.written = <<>>
              /\ DOMAIN req.headers = {"Accept", "Authorization"}

\* C11 witness: createSnapshot with a name that form encoding changes has
\* resolved on its one POST, and the body written was snapname=pre+upgrade.
C11_Witness ==
    /\ call.op = "createSnapshot"
    /\ call.name = "pre upgrade"
    /\ outcome.state = "resolved"
    /\ Len(requests) = 1
    /\ requests[1].written = <<[key |-> "snapname", value |-> "pre+upgrade"]>>
    /\ requests[1].headers.ContentLength = 20

\* Request i is over and ended in a transport error (no response at all), a
\* status that is missing or outside 200..299, or a body that is no JSON.
EndedInFailure(i) ==
    /\ requests[i].state # "pending"
    /\ \/ ~Responded(i)
       \/ NonSuccess(requests[i].response)
       \/ ~requests[i].response.body.valid

\* What was sent for a request: target, method and written body.
Sent(req) == <<req.url, req.method, req.written>>

\* C14 (state part): a call has at most one request, two for
\* listVirtualMachines, no two of them the same; and as soon as one of
\* them has ended in failure the call is rejected, not resolved or pending.
C14_AtMostOnceAndRejected ==
    /\ Len(requests) <= (IF call.op = "listVirtualMachines" THEN 2 ELSE 1)
    /\ \A i, j \in DOMAIN requests : Sent(requests[i]) = Sent(requests[j]) => i = j
    /\ (\E i \in DOMAIN requests : EndedInFailure(i)) => outcome.state = "rejected"

\* C14 (step part): while a call is under way no request is sent again or
\* added, a request that is over is not reopened, and a rejected call stays
\* rejected until its caller has taken the rejection.
C14_NoResendStep ==
    /\ outcome.state # "idle" =>
          \/ requests' = <<>> /\ outcome'.state = "idle"
          \/ /\ Len(requests') = Len(requests)
             /\ \A i \in DOMAIN requests :
                   /\ Sent(requests'[i]) = Sent(requests[i])
                   /\ requests[i].state # "pending" => requests'[i] = requests[i]
    /\ outcome.state = "rejected" =>
          \/ outcome' = outcome
          \/ outcome'.state = "idle"

LifecycleEndpoint ==
    [startVirtualMachine |-> "start", stopVirtualMachine |-> "stop",
     restartVirtualMachine |-> "reboot"]

IsLifecycleCall == call.op \in DOMAIN LifecycleEndpoint

\* What every reading of C15 shares: a lifecycle call has issued one
\* request only, a POST with no body to the guest's status/<endpoint>, and
\* it is settled as soon as that request has been answered.
LifecycleSinglePost ==
    IsLifecycleCall =>
        /\ normalizedBaseUrl.ok => Len(requests) = 1
        /\ \A i \in DOMAIN requests :
              /\ requests[i].method = "POST"
              /\ requests[i].url.path =
                    <<"api2", "json", "nodes", encodeURIComponent(call.node), call.type,
                      ToString(call.vmId), "status", LifecycleEndpoint[call.op]>>
              /\ requests[i].written = <<>>
              /\ requests[i].state # "pending" => outcome.state # "pending"

\* C15 as stated: start, stop and restart send exactly one POST to
\* status/start, status/stop or status/reboot and complete (resolve) as
\* soon as that single response is 2xx, whatever it carries.
C15_CompletesOnAny2xx ==
    /\ LifecycleSinglePost
    /\ IsLifecycleCall =>
          \A i \in DOMAIN requests :
              (Responded(i) /\ ~NonSuccess(requests[i].response))
                  => outcome = [state |-> "resolved", value |-> "undefined"]

\* C15 amended: start, stop and restart send exactly one POST to
\* status/start, status/stop or status/reboot and no other request; they
\* resolve, with no value, as soon as that single response is 2xx with a
\* body that parses as JSON, whatever the document says, and are rejected
\* with the parse failure when the 2xx body is no JSON.
C15_CompletesOn2xxJson ==
    /\ LifecycleSinglePost
    /\ IsLifecycleCall =>
          \A i \in DOMAIN requests :
              (Responded(i) /\ ~NonSuccess(requests[i].response))
                  => IF requests[i].response.body.valid
                     THEN outcome = [state |-> "resolved", value |-> "undefined"]
                     ELSE outcome.state = "rejected" /\ DecodeFailure(outcome.error)

\* C15 witness: restartVirtualMachine resolved on the 2xx JSON answer to
\* its one POST to status/reboot.
C15_Witness ==
    /\ call.op = "restartVirtualMachine"
    /\ outcome.state = "resolved"
    /\ Len(requests) = 1
    /\ requests[1].url.path[Len(requests[1].url.path)] = "reboot"
    /\ requests[1].response.statusCode = 299

\* C16 (state part): between calls the client holds nothing but its three
\* fields, and the value a call resolved with is the one its own requests'
\* answers determine, each request having been sent and answered anew.
C16_NothingKept ==
    /\ outcome.state = "idle" => (call = [op |-> "none"] /\ requests = <<>>)
    /\ outcome.state = "resolved" =>
          /\ requests # <<>>
          /\ \A i \in DOMAIN requests : Responded(i)
          /\ outcome.value = Result(call, requests)

\* C16 (step part): no step of any operation, successful or failed,
\* changes host, token or insecure flag; a call that starts does not reuse
\* an answer: every request it issues is new and pending.
C16_ConfigurationFixedStep ==
    /\ host' = host
    /\ apiToken' = apiToken
    /\ allowInsecure' = allowInsecure
    /\ outcome.state = "idle" =>
          \A i \in DOMAIN requests' :
              requests'[i].state = "pending" /\ "response" \notin DOMAIN requests'[i]

\* C16: no client operation changes the client's host, token or insecure
\* flag after construction, and the client keeps no other state between
\* calls: a repeated call starts from the state the first one started from,
\* sends its requests again and resolves with what their answers determine.
C16_ClientIsStateless == []C16_NothingKept /\ [][C16_ConfigurationFixedStep]_vars

\* C16 witness: a call has resolved on a client whose host is still the
\* trimmed configured value, with its trailing slash.
C16_Witness ==
    /\ outcome.state = "resolved"
    /\ call.op = "listSnapshots"
    /\ host = <<"http:", "//h:8006", "/">>
    /\ apiToken = <<"u@pve!t=secret">>

DetailsResolved == call.op = "getVirtualMachineDetails" /\ outcome.state = "resolved"

\* C18: the record a resolved getVirtualMachineDetails(node, type, id) call
\* returns has the id, node and type of the call; uptime, cpu, mem and
\* maxMem are the remote uptime, cpu, mem and maxmem, 0 for each one that
\* is missing; the name is the trimmed remote name, or "VM <id>" when that
\* is blank or missing; the status is the remote string as it came, or
\* "unknown" when missing.
C18_DetailsRecord ==
    DetailsResolved =>
        LET data == DataOf(requests[1])
            details == outcome.value
            Remote(key) == IF key \in DOMAIN data THEN data[key] ELSE 0
        IN /\ DOMAIN details =
                 {"id", "name", "status", "uptime", "cpu", "mem", "maxMem", "node", "type"}
           /\ details.id = call.vmId
           /\ details.node = call.node
           /\ details.type = call.type
           /\ details.uptime = Remote("uptime")
           /\ details.cpu = Remote("cpu")
           /\ details.mem = Remote("mem")
           /\ details.maxMem = Remote("maxmem")
           /\ details.name =
                 (IF "name" \in DOMAIN data /\ Trim(data.name) # <<>>
                  THEN Trim(data.name)
                  ELSE <<"VM", " ", ToString(call.vmId)>>)
           /\ details.status =
                 (IF "status" \in DOMAIN data THEN data.status ELSE "unknown")

\* C18 witness: the details of a guest whose remote record has a blank
\* name, the status "paused" and no cpu, mem or maxmem.
C18_Witness ==
    /\ DetailsResolved
    /\ DataOf(requests[1]) = [name |-> <<" ">>, status |-> "paused", uptime |-> 0]
    /\ outcome.value.status = "paused"
    /\ outcome.value.name = <<"VM", " ", "100">>
    /\ outcome.value.maxMem = 0

(***************************************************************************)
(* The extension's commands                                                *)
(***************************************************************************)
\* The invocation of a command that is under way
Command == running["command"]

\* The invocation has called op on its client and has not resumed since.
Calling(f, ops) == f.pc \in {"call", "bound", "await"} /\ f.op.op \in ops

LifecycleCommands == {"vmAction"} \cup DOMAIN TreeLifecycleCommands

\* C12: in the VM Actions menu and the tree start/stop/restart commands, a
\* start, stop or restart is called on the client, and its request sent,
\* only by an invocation in which the user chose 'Confirm' whenever the
\* action's setting is enabled; an invocation whose modal was dismissed has
\* returned with no lifecycle call and no request; and the modal is open
\* only when the action's setting is enabled.
C12_LifecycleNeedsConfirm ==
    /\ Calling(Command, DOMAIN LifecycleEndpoint) =>
          /\ Command.cmd \in LifecycleCommands
          /\ Command.op.op = Lifecycle[Command.action].op
          /\ settings[Lifecycle[Command.action].setting] =>
                <<"confirmVm", "Confirm">> \in Command.answers
    /\ IsLifecycleCall => Calling(Command, {call.op})
    /\ <<"confirmVm", "dismissed">> \in Command.answers =>
          /\ Command.pc = "returned"
          /\ Command.op.op = "none"
          /\ requests = <<>>
    /\ Command.prompt = "confirmVm" =>
          /\ Command.cmd \in LifecycleCommands
          /\ settings[Lifecycle[Command.action].setting]

\* A stop confirmed in the VM Actions menu, with confirmStop enabled, has
\* its request out.
C12_Witness ==
    /\ Command.cmd = "vmAction"
    /\ call.op = "stopVirtualMachine"
    /\ settings.confirmStop
    /\ <<"confirmVm", "Confirm">> \in Command.answers
    /\ Len(requests) = 1

\* C13: with allowInsecure enabled the insecure-TLS warning is shown the
\* first time insecure TLS is used, so whenever a request with certificate
\* validation switched off has been issued, the warning has been shown
\* since activation.
C13_WarningBeforeInsecureUse ==
    (\E i \in DOMAIN requests : ValidationDisabled(requests[i])) => warningSeen

\* The rest of C13, which the code keeps while commands run one at a
\* time: once "Don't show again" was chosen the warning is not open, and
\* with the flag clear (at activation or after Reset Insecure Warning) an
\* interactive use that reaches a client with allowInsecure shows it first.
C13_SuppressedUntilReset ==
    /\ suppressInsecureWarning => Command.prompt # "insecureWarning"
    /\ ~suppressInsecureWarning /\ Command.client # Null /\ settings.allowInsecure =>
          <<"insecureWarning", "Continue">> \in Command.answers

(***************************************************************************)
(* The background refresh                                                  *)
(***************************************************************************)
\* The invocation of refreshNodes(false) by the timer
Timer == running["timer"]

\* The timer's refresh shows no notification and opens no prompt or picker.
C17_Silent ==
    /\ Timer.shown = <<>>
    /\ Timer.pc # "prompt"
    /\ Timer.prompt = "none"
    /\ Timer.answers = {}
    /\ Timer.op.op \in {"none", "listNodes"}

\* The step in which the timer's refresh resumes after its listNodes has
\* settled leaves the state 'disconnected' with the failure's message, or
\* 'connected' with no error.
C17_ObservedStep ==
    Timer.pc = "await" /\ Timer'.pc # "await" =>
        /\ Timer'.pc = "returned"
        /\ IF outcome.state = "rejected"
           THEN /\ statusState' = "disconnected"
                /\ lastError' = {outcome.error.message}
           ELSE /\ outcome.state = "resolved"
                /\ statusState' = "connected"
                /\ lastError' = Null

\* C17: when a background refresh fails in listNodes the state becomes
\* 'disconnected' with lastError the failure's message, when it succeeds
\* the state becomes 'connected' with lastError cleared, and in neither
\* case is a notification, prompt or picker shown.
C17_BackgroundRefreshObserved == []C17_Silent /\ [][C17_ObservedStep]_vars

\* The timer's refresh has returned from a failed listNodes while no
\* command is under way and no warning was ever shown.
C17_Witness ==
    /\ Timer.pc = "returned"
    /\ Timer.client # Null
    /\ statusState = "disconnected"
    /\ lastError # Null
    /\ Command.pc = "idle"
    /\ ~warningSeen

(***************************************************************************)
(* The insecure-TLS warning                                                *)
(***************************************************************************)
\* The user's answers to the warning in the invocation under way
WarningAnswers == { a[2] : a \in { b \in Command.answers : b[1] = "insecureWarning" } }

\* C19: in a command run with allowInsecure enabled and the warning not
\* suppressed, a client exists, an operation is called and a request is out
\* only if the user chose 'Continue' on the warning of that invocation; an
\* invocation whose warning was dismissed or answered "Don't show again"
\* has returned without a client, a call or a request, and after "Don't
\* show again" the suppression flag is set.
C19_ClientOnlyOnContinue ==
    /\ settings.allowInsecure /\ ~suppressInsecureWarning =>
          /\ Command.client # Null => "Continue" \in WarningAnswers
          /\ call.op # "none" \/ requests # <<>> => "Continue" \in WarningAnswers
          /\ Command.prompt = "insecureWarning" => Command.client = Null
    /\ WarningAnswers \cap {"dismissed", "Don't show again"} # {} =>
          /\ Command.pc = "returned"
          /\ Command.client = Null
          /\ Command.op.op = "none"
          /\ call.op = "none"
          /\ requests = <<>>
    /\ "Don't show again" \in WarningAnswers => suppressInsecureWarning
    /\ Command.prompt = "insecureWarning" =>
          settings.allowInsecure /\ ~suppressInsecureWarning

\* The user chose "Don't show again": the invocation has ended with the
\* flag stored and nothing constructed or sent.
C19_Witness ==
    /\ "Don't show again" \in WarningAnswers
    /\ Command.pc = "returned"
    /\ suppressInsecureWarning

(***************************************************************************)
(* Deleting and restoring snapshots                                        *)
(***************************************************************************)
\* The button that stands before each of the two operations
SnapshotConfirmation == [deleteSnapshot |-> "Delete", restoreSnapshot |-> "Restore"]

SnapshotCommands == {"snapshotActions", "restoreSnapshot", "treeRestoreSnapshot"}

\* The request of a deleteSnapshot or restoreSnapshot call is the DELETE of,
\* or the POST to the rollback of, snapshot name of guest vm.
Targets(req, op, vm, name) ==
    LET snapshotPath == <<"api2", "json", "nodes", encodeURIComponent(vm.node), vm.type,
                          ToString(vm.id), "snapshot", encodeURIComponent(name)>>
    IN IF op = "deleteSnapshot"
       THEN req.method = "DELETE" /\ req.url.path = snapshotPath
       ELSE req.method = "POST" /\ req.url.path = snapshotPath \o <<"rollback">>

\* C20: in Snapshot Actions, Restore Snapshot and the tree's Restore
\* Snapshot, deleteSnapshot or restoreSnapshot is called, and its DELETE or
\* rollback request sent, only by an invocation whose modal the user
\* answered with 'Delete' respectively 'Restore', and for exactly the
\* snapshot name and the guest selected in that invocation; an invocation
\* whose modal was dismissed has returned without such a call or request.
C20_SnapshotChangeNeedsConfirm ==
    /\ Calling(Command, DOMAIN SnapshotConfirmation) =>
          /\ Command.cmd \in SnapshotCommands
          /\ <<"confirmSnapshot", SnapshotConfirmation[Command.op.op]>> \in Command.answers
          /\ Command.op = SnapshotCall(Command.op.op, The(Command.vm), Command.snapshot)
    /\ call.op \in DOMAIN SnapshotConfirmation =>
          /\ Calling(Command, {call.op})
          /\ call = Command.op
          /\ \A i \in DOMAIN requests :
                Targets(requests[i], call.op, The(Command.vm), Command.snapshot)
    /\ <<"confirmSnapshot", "dismissed">> \in Command.answers =>
          /\ Command.pc = "returned"
          /\ Command.op.op = "none"
          /\ call.op = "none"
          /\ requests = <<>>

\* Snapshot Actions has the DELETE of the picked snapshot snap2 of the
\* picked guest out, after 'Delete' was chosen.
C20_Witness ==
    /\ Command.cmd = "snapshotActions"
    /\ call.op = "deleteSnapshot"
    /\ Command.snapshot = "snap2"
    /\ The(Command.vm).id = 100
    /\ <<"confirmSnapshot", "Delete">> \in Command.answers
    /\ Len(requests) = 1
    /\ requests[1].method = "DELETE"

(***************************************************************************)
(* The connectivity status                                                 *)
(***************************************************************************)
\* If the status is 'connected' then lastError is null and lastRefresh is
\* set.
ConnectedIsClean ==
    statusState = "connected" => lastError = Null /\ lastRefresh # Null

ConnectingCommands == {"listNodes", "testConnection"} \cup PickCommands

\* C22: an invocation that set the status to 'connecting' has moved it to
\* 'connected', 'disconnected' or 'unknown' by the time its handler
\* returns, whatever path it took, while no other invocation is under way.
C22_ReturnsOutOfConnecting ==
    Command.pc = "returned" /\ Command.cmd \in ConnectingCommands /\ Timer.pc = "idle" =>
        statusState \in {"connected", "disconnected", "unknown"}

(***************************************************************************)
(* The explorer's getChildren                                              *)
(***************************************************************************)
\* The getChildren under way
Tree == running["tree"]

\* The kind of the items under the element expanded
ChildKind ==
    IF Tree.element = Null THEN "node"
    ELSE IF The(Tree.element).kind = "node" THEN "vm" ELSE "snapshot"

\* Item stands for the fetched record, under the element expanded.
Shows(item, record) ==
    /\ item.kind = ChildKind
    /\ CASE ChildKind = "node" ->
               item.label = record.name /\ item.data.nodeName = record.name
         [] ChildKind = "vm" ->
               item.data.vm = record /\ item.data.nodeName = record.node
         [] ChildKind = "snapshot" ->
               /\ item.label = record.name
               /\ item.data.snapshotName = record.name
               /\ item.data.vm = The(Tree.element).data.vm

\* getChildren returns a list whenever it ends; without a client it has
\* called nothing, sent nothing and returns exactly one 'empty' item.
C23_ReturnsItems ==
    /\ Tree.pc = "returned" => Tree.children # Null
    /\ Tree.pc # "idle" /\ Tree.client = Null =>
          /\ Tree.op.op = "none"
          /\ call.op = "none"
          /\ requests = <<>>
    /\ Tree.pc = "returned" /\ Tree.client = Null =>
          /\ Len(The(Tree.children)) = 1
          /\ The(Tree.children)[1].kind = "empty"

\* The step in which getChildren resumes after its fetch has settled
\* returns: one 'error' item described by the failure's message if it was
\* rejected, one 'empty' item if it resolved to an empty collection, and
\* otherwise one item for each fetched record, in the client's order.
C23_ReturnStep ==
    Tree.pc = "await" /\ Tree'.pc # "await" =>
        /\ Tree'.pc = "returned"
        /\ Tree'.children # Null
        /\ LET items == The(Tree'.children) IN
           IF outcome.state = "rejected"
           THEN /\ Len(items) = 1
                /\ items[1].kind = "error"
                /\ items[1].description = outcome.error.message
           ELSE IF outcome.value = <<>>
           THEN /\ Len(items) = 1
                /\ items[1].kind = "empty"
           ELSE /\ Len(items) = Len(outcome.value)
                /\ \A k \in DOMAIN items : Shows(items[k], outcome.value[k])

\* C23: getChildren never rejects; with no client it returns exactly one
\* 'empty' item and sends no request; when the client call fails it returns
\* exactly one 'error' item whose description is the failure message; when
\* the fetched collection is empty it returns exactly one 'empty' item; and
\* otherwise one item per fetched record in the client's order, of kind
\* node, vm or snapshot according to the element expanded.
C23_GetChildrenNeverRejects == []C23_ReturnsItems /\ [][C23_ReturnStep]_vars

\* A node was expanded and getChildren has returned its two guests, the
\* container 50 before the machine 100.
C23_Witness ==
    /\ Tree.pc = "returned"
    /\ Tree.element # Null
    /\ Tree.children # Null
    /\ Len(The(Tree.children)) = 2
    /\ The(Tree.children)[1].kind = "vm"
    /\ The(Tree.children)[1].data.vm.id = 50
    /\ The(Tree.children)[2].data.vm.id = 100

(***************************************************************************)
(* Token resolution                                                        *)
(***************************************************************************)
\* config.get('apiToken', '').trim()
LegacyToken == Trim(settings.apiToken)

\* The user's answers to 'Move it to Secret Storage?' in the command
MoveAnswers == { a[2] : a \in { b \in Command.answers : b[1] = "moveToken" } }

\* The token the invocation's client was constructed with
TokenOf(f) == The(f.client).apiToken

\* C24: a stored token is used in preference to the token of the settings,
\* and is used without a prompt; the token of the settings is used by the
\* timer's refresh without any prompt, and by a command only after the
\* user chose 'Move', which has stored it, or 'Use Once'; a dismissed
\* prompt ends the command with no client and no call, and with no token
\* at all there is no client and no request.
C24_TokenResolution ==
    /\ \A i \in {"command", "timer"} :
          running[i].client # Null =>
              IF secrets # Null
              THEN TokenOf(running[i]) = The(secrets)
              ELSE LegacyToken # <<>> /\ TokenOf(running[i]) = LegacyToken
    /\ Command.client # Null =>
          \/ MoveAnswers = {} /\ secrets # Null
          \/ MoveAnswers = {"Move"} /\ secrets = {LegacyToken}
          \/ MoveAnswers = {"Use Once"}
    /\ Command.prompt = "moveToken" => secrets = Null /\ LegacyToken # <<>>
    /\ "Move" \in MoveAnswers => secrets = {LegacyToken}
    /\ Timer.prompt = "none" /\ Timer.answers = {} /\ Timer.shown = <<>>
    /\ "dismissed" \in MoveAnswers =>
          /\ Command.pc = "returned"
          /\ Command.client = Null
          /\ Command.op.op = "none"
    /\ secrets = Null /\ LegacyToken = <<>> =>
          \A i \in {"command", "timer"} : running[i].client = Null
    /\ (\A i \in {"command", "timer"} : running[i].client = Null) =>
          call.op = "none" /\ requests = <<>>

\* The user chose 'Move': the token of the settings is stored, and the
\* command's request is out under it.
C24_Witness ==
    /\ MoveAnswers = {"Move"}
    /\ secrets = {LegacyToken}
    /\ Command.client # Null
    /\ TokenOf(Command) = <<"u@pve!t=legacy">>
    /\ Command.pc = "await"
    /\ Len(requests) = 1

====
